---- MODULE Spec2Model ----
(***************************************************************************)
(* Model of the node/edge state engine of xyflow (react store, change      *)
(* application, diffing, batching queue, node adoption).                   *)
(*                                                                         *)
(* Conventions.  A JavaScript object is a record whose domain is the set   *)
(* of its defined properties: `o.f === undefined` is "f" \notin DOMAIN o.  *)
(* Object identity is the field `ref`: a === b iff a.ref = b.ref.  A new    *)
(* object ({...o}, an object literal) takes a ref that no live object      *)
(* holds.  A JavaScript Map is a sequence of [key, value] entries in        *)
(* insertion order.  Node origins are drawn from {0, 1} on each axis, so    *)
(* all geometry stays in the integers.                                     *)
(***************************************************************************)
EXTENDS Integers, Sequences, FiniteSets, TLC

VARIABLES
    \* ---- react store (src/packages/react/src/store/index.ts) ----
    nodes,              \* state.nodes: the user node array
    nodeLookup,         \* state.nodeLookup: Map id -> internal node
    parentLookup,       \* state.parentLookup: Map parentId -> Map childId -> internal node
    nodeExtent,         \* state.nodeExtent
    nodeOrigin,         \* state.nodeOrigin
    elevateNodesOnSelect, \* state.elevateNodesOnSelect
    storeParams,        \* the parameters createStore was called with (its closure)
    hasDefaultNodes,    \* state.hasDefaultNodes (managed mode for nodes)
    edges,              \* state.edges
    edgeLookup,         \* state.edgeLookup: Map id -> edge
    connectionLookup,   \* state.connectionLookup
    hasDefaultEdges,    \* state.hasDefaultEdges
    handlers,           \* which of onNodesChange / onEdgesChange the consumer supplied
    notified,           \* what the consumer's handlers were called with by the last operation
    lastOp,             \* the last store operation: its name, argument and the store before it
    triggered,          \* how many change batches event code handed to the store
    \* ---- viewport (store/index.ts and the XYPanZoom instance it holds) ----
    panZoom,            \* state.panZoom !== null: the XYPanZoom instance exists
    transform,          \* the current transform of the zoom behaviour, mirrored by state.transform
    minZoom,            \* state.minZoom, and the lower end of the scale extent
    maxZoom,            \* state.maxZoom, and the upper end of the scale extent
    translateExtent,    \* state.translateExtent, and that of the zoom behaviour
    \* ---- pointer gestures (XYResizer, XYDrag) ----
    gesture,            \* what the gesture in progress captured when it started
    \* ---- batching queues (useQueue.ts, BatchProvider) ----
    queue,              \* kind -> the pending array of createQueue
    serial,             \* kind -> the `serial` state of useQueue
    effectSerial,       \* kind -> the `serial` the layout effect last ran for
    phase,              \* "sync": event code runs; "committed": React committed the render
    tickPushes,         \* kind -> tags of the payloads pushed by the event code of this tick
    tickRuns,           \* kind -> the runQueue calls of this tick (each: the tags it received)
    pushed,             \* kind -> how many times queue.push was called
    delivered,          \* kind -> the tags runQueue has processed, in order
    lastFlush,          \* kind -> the runQueue call of the last commit (<< >> when none)
    \* ---- pure-function harness (changes.ts) ----
    pc,                 \* which function the harness applied last
    elements,           \* current element array
    items,              \* next element array handed to the diff
    changes,            \* change list handed to applyChanges
    diffLookup,             \* the Map the diff is computed against
    result              \* output of the last application

storeVars == <<nodes, nodeLookup, parentLookup, nodeExtent, nodeOrigin, elevateNodesOnSelect,
               storeParams, hasDefaultNodes,
               edges, edgeLookup, connectionLookup, hasDefaultEdges, handlers, notified, lastOp,
               triggered, panZoom, transform, minZoom, maxZoom, translateExtent, gesture>>
viewVars == <<panZoom, transform, minZoom, maxZoom, translateExtent>>
queueVars == <<queue, serial, effectSerial, phase, tickPushes, tickRuns, pushed, delivered,
               lastFlush>>
pureVars == <<pc, elements, items, changes, diffLookup, result>>
vars == <<storeVars, queueVars, pureVars>>

(***************************************************************************)
(* JavaScript objects, arrays and Maps                                     *)
(***************************************************************************)
Has(o, f) == f \in DOMAIN o
FieldOr(o, f, d) == IF f \in DOMAIN o THEN o[f] ELSE d
With(o, f, v) == [k \in (DOMAIN o) \cup {f} |-> IF k = f THEN v ELSE o[k]]
Without(o, f) == [k \in (DOMAIN o) \ {f} |-> o[k]]

Range(s) == {s[i] : i \in DOMAIN s}
Min(a, b) == IF a < b THEN a ELSE b
Max(a, b) == IF a > b THEN a ELSE b

\* The smallest ref that no object of `used` holds.
FreshRef(used) == CHOOSE r \in 1..(Cardinality(used) + 1) :
                      r \notin used /\ \A q \in 1..(r - 1) : q \in used

Refs(arr) == {arr[i].ref : i \in DOMAIN arr}
Ids(arr) == [i \in DOMAIN arr |-> arr[i].id]

MapHas(m, k) == \E i \in DOMAIN m : m[i].key = k
MapGet(m, k) == m[CHOOSE i \in DOMAIN m : m[i].key = k].value
MapSet(m, k, v) ==
    IF MapHas(m, k)
    THEN [i \in DOMAIN m |-> IF m[i].key = k THEN [key |-> k, value |-> v] ELSE m[i]]
    ELSE Append(m, [key |-> k, value |-> v])
MapKeys(m) == [i \in DOMAIN m |-> m[i].key]
MapValues(m) == [i \in DOMAIN m |-> m[i].value]

\* A variant of splice that ignores the index.
SpliceAtEnd(arr, index, item) == Append(arr, item)

\* Array.prototype.splice(index, 0, item): an index past the end appends.
Splice(arr, index, item) ==
    LET at == Min(index, Len(arr))
    IN  SubSeq(arr, 1, at) \o <<item>> \o SubSeq(arr, at + 1, Len(arr))

(***************************************************************************)
(* changes.ts: applyChange, applyChanges                                   *)
(***************************************************************************)
\* applyChange(change, element): the mutable update of the copied element.
applyChange(change, element) ==
    CASE change.type = "select" ->
            With(element, "selected", change.selected)
      [] change.type = "position" ->
            LET e1 == IF Has(change, "position")
                      THEN With(element, "position", change.position) ELSE element
            IN  IF Has(change, "dragging") THEN With(e1, "dragging", change.dragging) ELSE e1
      [] change.type = "dimensions" ->
            LET e1 == IF Has(change, "dimensions")
                      THEN LET m0 == FieldOr(element, "measured", << >>)
                               m1 == With(With(m0, "width", change.dimensions.width),
                                          "height", change.dimensions.height)
                               e0 == With(element, "measured", m1)
                           IN  IF FieldOr(change, "setAttributes", FALSE)
                               THEN With(With(e0, "width", change.dimensions.width),
                                         "height", change.dimensions.height)
                               ELSE e0
                      ELSE element
            IN  IF Has(change, "resizing") THEN With(e1, "resizing", change.resizing) ELSE e1
      [] OTHER -> element

\* A variant that applies only the first change of an element's list.
applyChangeListFirstOnly(cs, element) ==
    IF cs = << >> THEN element ELSE applyChange(Head(cs), element)

RECURSIVE applyChangeList(_, _)
applyChangeList(cs, element) ==
    IF cs = << >> THEN element
    ELSE applyChangeList(Tail(cs), applyChange(Head(cs), element))

\* A variant in which a remove / replace change joins the list instead of resetting it.
supersedeNever(m, c) == IF Has(m, c.id) THEN With(m, c.id, Append(m[c.id], c))
                        ELSE With(m, c.id, <<c>>)

\* changesMap.set(change.id, [change]) for a remove / replace change
supersede(m, c) == With(m, c.id, <<c>>)

\* A variant of the spread that hands back the object itself.
copyOfSame(item, r) == item

\* { ...item }: a new object with the properties of item
copyOf(item, r) == With(item, "ref", r)

\* First loop of applyChanges: changesMap as a function id -> change list.
RECURSIVE buildChangesMap(_, _)
buildChangesMap(cs, m) ==
    IF cs = << >> THEN m
    ELSE LET c == Head(cs)
             m1 == IF c.type = "add" THEN m
                   ELSE IF c.type \in {"remove", "replace"} THEN supersede(m, c)
                   ELSE IF Has(m, c.id) THEN With(m, c.id, Append(m[c.id], c))
                   ELSE With(m, c.id, <<c>>)
         IN  buildChangesMap(Tail(cs), m1)

\* Second loop of applyChanges: the scan of the element array.
RECURSIVE scanElements(_, _, _, _)
scanElements(els, cm, used, acc) ==
    IF els = << >> THEN acc
    ELSE LET e == Head(els)
         IN  IF ~Has(cm, e.id) THEN scanElements(Tail(els), cm, used, Append(acc, e))
             ELSE IF cm[e.id][1].type = "remove" THEN scanElements(Tail(els), cm, used, acc)
             ELSE LET r == FreshRef(used)
                      copy == IF cm[e.id][1].type = "replace"
                              THEN copyOf(cm[e.id][1].item, r)
                              ELSE applyChangeList(cm[e.id], copyOf(e, r))
                  IN  scanElements(Tail(els), cm, used \cup {r}, Append(acc, copy))

\* Third loop of applyChanges: the add changes, in arrival order.
RECURSIVE insertAdded(_, _, _)
insertAdded(cs, used, acc) ==
    IF cs = << >> THEN acc
    ELSE LET c == Head(cs)
         IN  IF c.type # "add" THEN insertAdded(Tail(cs), used, acc)
             ELSE LET r == FreshRef(used)
                      copy == copyOf(c.item, r)
                  IN  insertAdded(Tail(cs), used \cup {r},
                                  IF Has(c, "index") THEN Splice(acc, c.index, copy)
                                  ELSE Append(acc, copy))

ChangeItemRefs(cs) == {cs[i].item.ref : i \in {j \in DOMAIN cs : Has(cs[j], "item")}}

\* applyChanges(changes, elements); `live` holds the refs of the other live objects.
applyChanges(cs, els, live) ==
    LET used0 == live \cup Refs(els) \cup ChangeItemRefs(cs)
        scanned == scanElements(els, buildChangesMap(cs, << >>), used0, << >>)
    IN  insertAdded(cs, used0 \cup Refs(scanned), scanned)

createSelectionChange(id, selected) == [id |-> id, type |-> "select", selected |-> selected]

(***************************************************************************)
(* changes.ts: getElementsDiffChanges                                      *)
(***************************************************************************)
\* lookupItem?.internals?.userNode ?? lookupItem
storeItemOf(lookupItem) ==
    IF Has(lookupItem, "internals") THEN lookupItem.internals.userNode ELSE lookupItem

RECURSIVE diffItems(_, _, _, _)
diffItems(its, index, lookup, acc) ==
    IF its = << >> THEN acc
    ELSE LET item == Head(its)
             stored == MapHas(lookup, item.id)
             a1 == IF stored /\ storeItemOf(MapGet(lookup, item.id)).ref # item.ref
                   THEN Append(acc, [id |-> item.id, item |-> item, type |-> "replace"])
                   ELSE acc
             a2 == IF ~stored
                   THEN Append(a1, [item |-> item, type |-> "add", index |-> index])
                   ELSE a1
         IN  diffItems(Tail(its), index + 1, lookup, a2)

RECURSIVE diffRemoved(_, _, _)
diffRemoved(keys, its, acc) ==
    IF keys = << >> THEN acc
    ELSE diffRemoved(Tail(keys), its,
                     IF \E i \in DOMAIN its : its[i].id = Head(keys) THEN acc
                     ELSE Append(acc, [id |-> Head(keys), type |-> "remove"]))

\* A variant that emits the removals first.
getElementsDiffChangesRemovalsFirst(its, lookup) ==
    diffItems(its, 0, lookup, diffRemoved(MapKeys(lookup), its, << >>))

getElementsDiffChanges(its, lookup) ==
    diffRemoved(MapKeys(lookup), its, diffItems(its, 0, lookup, << >>))

(***************************************************************************)
(* changes.ts: createSelectionChange, getSelectionChanges                   *)
(***************************************************************************)
\* A variant of the test that emits for every item whose `selected` is not the
\* boolean asked for, a never-selected item included.
selectionDiffersStrictly(item, willBeSelected) ==
    ~Has(item, "selected") \/ item.selected # willBeSelected

\* !(item.selected === undefined && !willBeSelected) && item.selected !== willBeSelected
selectionDiffers(item, willBeSelected) ==
    /\ ~(~Has(item, "selected") /\ ~willBeSelected)
    /\ (~Has(item, "selected") \/ item.selected # willBeSelected)

\* A variant of the assignment that leaves the item as it is.
markSelectedNever(item, willBeSelected, mutateItem) == item

\* if (mutateItem) item.selected = willBeSelected: the item after the assignment.
markSelected(item, willBeSelected, mutateItem) ==
    IF mutateItem THEN With(item, "selected", willBeSelected) ELSE item

\* The loop of getSelectionChanges over the entries of `items`, from the i-th on;
\* acc holds the Map with the items mutated so far and the changes pushed so far.
RECURSIVE selectionChangesFrom(_, _, _, _)
selectionChangesFrom(i, acc, selectedIds, mutateItem) ==
    IF i > Len(acc.items) THEN acc
    ELSE LET id == acc.items[i].key
             item == acc.items[i].value
             willBeSelected == id \in selectedIds
         IN  selectionChangesFrom(
                 i + 1,
                 IF selectionDiffers(item, willBeSelected)
                 THEN [items |-> [acc.items EXCEPT ![i].value =
                                      markSelected(item, willBeSelected, mutateItem)],
                       changes |-> Append(acc.changes,
                                          createSelectionChange(item.id, willBeSelected))]
                 ELSE acc,
                 selectedIds, mutateItem)

\* getSelectionChanges(items, selectedIds, mutateItem): the changes it returns and
\* the Map as the call leaves it.
getSelectionChanges(itemsMap, selectedIds, mutateItem) ==
    selectionChangesFrom(1, [items |-> itemsMap, changes |-> << >>], selectedIds, mutateItem)

(***************************************************************************)
(* general utils: clamp, clampPosition, getNodeDimensions, ...             *)
(***************************************************************************)
\* A CoordinateExtent [[x1, y1], [x2, y2]]; infiniteExtent has infinite = TRUE
\* (clamping against -Infinity / Infinity - width leaves a value unchanged).
InfiniteExtent == [infinite |-> TRUE]
CoordExtent(x1, y1, x2, y2) == [infinite |-> FALSE, x1 |-> x1, y1 |-> y1, x2 |-> x2, y2 |-> y2]

clamp(val, min, max) == Min(Max(val, min), max)

clampPosition(position, extent, dimensions) ==
    IF extent.infinite THEN [x |-> position.x, y |-> position.y]
    ELSE [x |-> clamp(position.x, extent.x1, extent.x2 - FieldOr(dimensions, "width", 0)),
          y |-> clamp(position.y, extent.y1, extent.y2 - FieldOr(dimensions, "height", 0))]

\* node.extent is undefined, 'parent' or a CoordinateExtent: [kind |-> "parent"] or
\* [kind |-> "coord", value |-> extent].
isCoordinateExtent(node) == Has(node, "extent") /\ node.extent.kind = "coord"
isParentExtent(node) == Has(node, "extent") /\ node.extent.kind = "parent"

getNodeDimensions(node) ==
    LET m == FieldOr(node, "measured", << >>)
    IN  [width  |-> FieldOr(m, "width", FieldOr(node, "width", FieldOr(node, "initialWidth", 0))),
         height |-> FieldOr(m, "height", FieldOr(node, "height", FieldOr(node, "initialHeight", 0)))]

\* A variant that keeps only the child's top-left corner inside the parent.
clampCornerToParent(childPosition, childDimensions, parent) ==
    LET pd == getNodeDimensions(parent)
        pa == parent.internals.positionAbsolute
    IN  clampPosition(childPosition,
                      CoordExtent(pa.x, pa.y, pa.x + pd.width, pa.y + pd.height), << >>)

clampPositionToParent(childPosition, childDimensions, parent) ==
    LET pd == getNodeDimensions(parent)
        pa == parent.internals.positionAbsolute
    IN  clampPosition(childPosition,
                      CoordExtent(pa.x, pa.y, pa.x + pd.width, pa.y + pd.height),
                      childDimensions)

getNodePositionWithOrigin(node, origin0) ==
    LET d == getNodeDimensions(node)
        origin == FieldOr(node, "origin", origin0)
    IN  [x |-> node.position.x - d.width * origin[1],
         y |-> node.position.y - d.height * origin[2]]

(***************************************************************************)
(* store utils: adoptUserNodes, updateChildNode, calculateChildXYZ         *)
(***************************************************************************)
ElevateZ == 1000

defaultOptions ==
    [nodeOrigin |-> <<0, 0>>, nodeExtent |-> InfiniteExtent, elevateNodesOnSelect |-> TRUE]

adoptUserNodesDefaultOptions == With(defaultOptions, "checkEquality", TRUE)

\* mergeObjects(base, incoming): the defined properties of incoming win.
mergeObjects(base, incoming) ==
    [k \in (DOMAIN base) \cup (DOMAIN incoming) |->
        IF k \in DOMAIN incoming THEN incoming[k] ELSE base[k]]

calculateZ(node, selectedNodeZ) ==
    FieldOr(node, "zIndex", 0) + (IF FieldOr(node, "selected", FALSE) THEN selectedNodeZ ELSE 0)

calculateChildXYZ(childNode, parentNode, origin0, extent0, selectedNodeZ) ==
    LET pa == parentNode.internals.positionAbsolute
        childDimensions == getNodeDimensions(childNode)
        own(positionWithOrigin) ==
            IF isCoordinateExtent(childNode)
            THEN clampPosition(positionWithOrigin, childNode.extent.value, childDimensions)
            ELSE positionWithOrigin
        global(clampedPosition) ==
            clampPosition([x |-> pa.x + clampedPosition.x, y |-> pa.y + clampedPosition.y],
                          extent0, childDimensions)
        inParent(absolutePosition) ==
            IF isParentExtent(childNode)
            THEN clampPositionToParent(absolutePosition, childDimensions, parentNode)
            ELSE absolutePosition
        childZ == calculateZ(childNode, selectedNodeZ)
        parentZ == FieldOr(parentNode.internals, "z", 0)
        xyz(absolutePosition) ==
            [x |-> absolutePosition.x, y |-> absolutePosition.y,
             z |-> IF parentZ > childZ THEN parentZ ELSE childZ]
    IN  xyz(inParent(global(own(getNodePositionWithOrigin(childNode, origin0)))))

\* The refs of the internal node objects a pair of lookups holds.
LookupRefs(nl, pl) ==
    {nl[i].value.ref : i \in DOMAIN nl}
        \cup UNION {{pl[i].value[j].value.ref : j \in DOMAIN pl[i].value} : i \in DOMAIN pl}

updateParentLookup(node, pl) ==
    IF ~Has(node, "parentId") THEN pl
    ELSE IF MapHas(pl, node.parentId)
         THEN MapSet(pl, node.parentId, MapSet(MapGet(pl, node.parentId), node.id, node))
         ELSE MapSet(pl, node.parentId, <<[key |-> node.id, value |-> node]>>)

\* updateChildNode(node, nodeLookup, parentLookup, options); `live` holds the refs of
\* internal node objects that are alive outside the two lookups.
updateChildNode(node, nl, pl, options, live) ==
    LET o == mergeObjects(defaultOptions, options)
        pa == node.internals.positionAbsolute
        selectedNodeZ == IF o.elevateNodesOnSelect THEN ElevateZ ELSE 0
        \* the lookups after the parent lookup was updated and { x, y, z } computed
        placed(pl1, xyz, positionChanged) ==
            IF positionChanged \/ xyz.z # node.internals.z
            THEN LET r == FreshRef(live \cup LookupRefs(nl, pl1))
                     in1 == [node.internals EXCEPT
                                !.positionAbsolute = IF positionChanged
                                                     THEN [x |-> xyz.x, y |-> xyz.y] ELSE pa,
                                !.z = xyz.z]
                     fresh == With(With(node, "internals", in1), "ref", r)
                 IN  [nodeLookup |-> MapSet(nl, node.id, fresh), parentLookup |-> pl1]
            ELSE [nodeLookup |-> nl, parentLookup |-> pl1]
        compared(pl1, xyz) == placed(pl1, xyz, xyz.x # pa.x \/ xyz.y # pa.y)
    IN  IF ~MapHas(nl, node.parentId) THEN [nodeLookup |-> nl, parentLookup |-> pl]
        ELSE compared(updateParentLookup(node, pl),
                      calculateChildXYZ(node, MapGet(nl, node.parentId), o.nodeOrigin,
                                        o.nodeExtent, selectedNodeZ))

\* The internal node adoptUserNodes constructs for a user node (its else branch).
newInternalNode(userNode, old, o, r) ==
    LET positionWithOrigin == getNodePositionWithOrigin(userNode, o.nodeOrigin)
        extent == IF isCoordinateExtent(userNode) THEN userNode.extent.value ELSE o.nodeExtent
        clampedPosition == clampPosition(positionWithOrigin, extent, getNodeDimensions(userNode))
        um == FieldOr(userNode, "measured", << >>)
        m0 == IF Has(um, "width") THEN [width |-> um.width] ELSE << >>
        measured == IF Has(um, "height") THEN With(m0, "height", um.height) ELSE m0
        selectedNodeZ == IF o.elevateNodesOnSelect THEN ElevateZ ELSE 0
        in0 == [positionAbsolute |-> clampedPosition,
                z |-> calculateZ(userNode, selectedNodeZ),
                userNode |-> userNode]
        internals == IF Has(userNode, "measured") /\ old # << >>
                        /\ Has(old[1].internals, "handleBounds")
                     THEN With(in0, "handleBounds", old[1].internals.handleBounds)
                     ELSE in0
    IN  With(With(With(userNode, "measured", measured), "internals", internals), "ref", r)

\* A variant of the equality check that compares ids, not references.
sameUserNodeById(o, old, userNode) == o.checkEquality /\ old # << >>

\* _options.checkEquality && userNode === internalNode?.internals.userNode
sameUserNode(o, old, userNode) ==
    o.checkEquality /\ old # << >> /\ old[1].internals.userNode.ref = userNode.ref

RECURSIVE adoptLoop(_, _, _, _, _)
adoptLoop(ns, tmpLookup, lookups, options, o) ==
    IF ns = << >> THEN lookups
    ELSE LET userNode == Head(ns)
             nl == lookups.nodeLookup
             pl == lookups.parentLookup
             old == IF MapHas(tmpLookup, userNode.id)
                    THEN <<MapGet(tmpLookup, userNode.id)>> ELSE << >>
             live == {tmpLookup[i].value.ref : i \in DOMAIN tmpLookup}
             reuse == sameUserNode(o, old, userNode)
             set(internalNode, nl1) ==
                 IF Has(userNode, "parentId")
                 THEN updateChildNode(internalNode, nl1, pl, options, live)
                 ELSE [nodeLookup |-> nl1, parentLookup |-> pl]
             adopt(internalNode) == set(internalNode, MapSet(nl, userNode.id, internalNode))
         IN  adoptLoop(Tail(ns), tmpLookup,
                       adopt(IF reuse THEN old[1]
                             ELSE newInternalNode(userNode, old, o,
                                                  FreshRef(live \cup LookupRefs(nl, pl)))),
                       options, o)

\* The nodes of an array that are roots or whose parent comes earlier in it.
RECURSIVE withoutOrphans(_, _)
withoutOrphans(ns, seen) ==
    IF ns = << >> THEN << >>
    ELSE IF Has(Head(ns), "parentId") /\ Head(ns).parentId \notin seen
         THEN withoutOrphans(Tail(ns), seen)
         ELSE <<Head(ns)>> \o withoutOrphans(Tail(ns), seen \cup {Head(ns).id})

\* A variant of adoptUserNodes that drops a child whose parent is not in the lookup.
adoptUserNodesSkippingOrphans(ns, nl, options) ==
    adoptLoop(withoutOrphans(ns, {}), nl, [nodeLookup |-> << >>, parentLookup |-> << >>],
              options, mergeObjects(adoptUserNodesDefaultOptions, options))

\* adoptUserNodes(nodes, nodeLookup, parentLookup, options): the two lookups it leaves.
adoptUserNodes(ns, nl, options) ==
    adoptLoop(ns, nl, [nodeLookup |-> << >>, parentLookup |-> << >>], options,
              mergeObjects(adoptUserNodesDefaultOptions, options))

(***************************************************************************)
(* store utils: updateConnectionLookup, handleExpandParent;                *)
(* graph utils: calculateNodePosition                                      *)
(***************************************************************************)
\* A template-string key `${a}-${b}-...` is the tuple of its parts; a null handle
\* prints as "null".
addConnectionToLookup(type, connection, connectionKey, cl, nodeId, handleId) ==
    LET put(m, key) == MapSet(m, key, MapSet(IF MapHas(m, key) THEN MapGet(m, key) ELSE << >>,
                                             connectionKey, connection))
        c1 == put(cl, <<nodeId>>)
        c2 == put(c1, <<nodeId, type>>)
    IN  IF handleId # "null" THEN put(c2, <<nodeId, type, handleId>>) ELSE c2

RECURSIVE updateConnectionLookup(_, _, _)
updateConnectionLookup(es, cl, el) ==
    IF es = << >> THEN [connectionLookup |-> cl, edgeLookup |-> el]
    ELSE LET edge == Head(es)
             sourceHandle == FieldOr(edge, "sourceHandle", "null")
             targetHandle == FieldOr(edge, "targetHandle", "null")
             connection == [edgeId |-> edge.id, source |-> edge.source, target |-> edge.target,
                            sourceHandle |-> sourceHandle, targetHandle |-> targetHandle]
             sourceKey == <<edge.source, sourceHandle, edge.target, targetHandle>>
             targetKey == <<edge.target, targetHandle, edge.source, sourceHandle>>
             c1 == addConnectionToLookup("source", connection, targetKey, cl, edge.source,
                                         sourceHandle)
             c2 == addConnectionToLookup("target", connection, sourceKey, c1, edge.target,
                                         targetHandle)
         IN  updateConnectionLookup(Tail(es), c2, MapSet(el, edge.id, edge))

nodeToRect(node) ==
    LET d == getNodeDimensions(node)
    IN  [x |-> node.internals.positionAbsolute.x, y |-> node.internals.positionAbsolute.y,
         width |-> d.width, height |-> d.height]

getBoundsOfRects(r1, r2) ==
    LET x == Min(r1.x, r2.x)
        y == Min(r1.y, r2.y)
        x2 == Max(r1.x + r1.width, r2.x + r2.width)
        y2 == Max(r1.y + r1.height, r2.y + r2.height)
    IN  [x |-> x, y |-> y, width |-> x2 - x, height |-> y2 - y]

Abs(n) == IF n < 0 THEN 0 - n ELSE n

\* First loop of handleExpandParent: parentExpansions, a Map parentId -> expansion.
RECURSIVE parentExpansionsOf(_, _, _)
parentExpansionsOf(children, nl, acc) ==
    IF children = << >> THEN acc
    ELSE LET child == Head(children)
         IN  IF ~MapHas(nl, child.parentId) THEN parentExpansionsOf(Tail(children), nl, acc)
             ELSE LET parent == MapGet(nl, child.parentId)
                      parentRect == IF MapHas(acc, child.parentId)
                                    THEN MapGet(acc, child.parentId).expandedRect
                                    ELSE nodeToRect(parent)
                      expandedRect == getBoundsOfRects(parentRect, child.rect)
                  IN  parentExpansionsOf(Tail(children), nl,
                          MapSet(acc, child.parentId,
                                 [expandedRect |-> expandedRect, parent |-> parent]))

\* The changes handleExpandParent emits for one expanded parent.
expandChangesFor(parentId, expandedRect, parent, children, pl, origin0) ==
    LET positionAbsolute == parent.internals.positionAbsolute
        dimensions == getNodeDimensions(parent)
        origin == FieldOr(parent, "origin", origin0)
        xChange == IF expandedRect.x < positionAbsolute.x
                   THEN Abs(positionAbsolute.x - expandedRect.x) ELSE 0
        yChange == IF expandedRect.y < positionAbsolute.y
                   THEN Abs(positionAbsolute.y - expandedRect.y) ELSE 0
        newWidth == Max(dimensions.width, expandedRect.width)
        newHeight == Max(dimensions.height, expandedRect.height)
        widthChange == (newWidth - dimensions.width) * origin[1]
        heightChange == (newHeight - dimensions.height) * origin[2]
        siblings == IF MapHas(pl, parentId) THEN MapValues(MapGet(pl, parentId)) ELSE << >>
        moved == SelectSeq(siblings,
                           LAMBDA c : ~\E i \in DOMAIN children : children[i].id = c.id)
        positionChanges ==
            IF xChange > 0 \/ yChange > 0 \/ widthChange # 0 \/ heightChange # 0
            THEN <<[id |-> parentId, type |-> "position",
                    position |-> [x |-> parent.position.x - xChange + widthChange,
                                  y |-> parent.position.y - yChange + heightChange]]>>
                 \o [i \in DOMAIN moved |->
                        [id |-> moved[i].id, type |-> "position",
                         position |-> [x |-> moved[i].position.x + xChange,
                                       y |-> moved[i].position.y + yChange]]]
            ELSE << >>
        dimensionChanges ==
            IF dimensions.width < expandedRect.width \/ dimensions.height < expandedRect.height
                 \/ xChange # 0 \/ yChange # 0
            THEN <<[id |-> parentId, type |-> "dimensions", setAttributes |-> TRUE,
                    dimensions |->
                        [width |-> newWidth + (IF xChange # 0
                                               THEN origin[1] * xChange - widthChange ELSE 0),
                         height |-> newHeight + (IF yChange # 0
                                                 THEN origin[2] * yChange - heightChange
                                                 ELSE 0)]]>>
            ELSE << >>
    IN  positionChanges \o dimensionChanges

RECURSIVE expandChangesOf(_, _, _, _)
expandChangesOf(expansions, children, pl, origin0) ==
    IF expansions = << >> THEN << >>
    ELSE expandChangesFor(Head(expansions).key, Head(expansions).value.expandedRect,
                          Head(expansions).value.parent, children, pl, origin0)
         \o expandChangesOf(Tail(expansions), children, pl, origin0)

handleExpandParent(children, nl, pl, origin0) ==
    expandChangesOf(parentExpansionsOf(children, nl, << >>), children, pl, origin0)

\* calculateNodePosition({ nodeId, nextPosition, nodeLookup, nodeOrigin, nodeExtent })
calculateNodePosition(nodeId, nextPosition, nl, origin0, extent0) ==
    LET node == MapGet(nl, nodeId)
        hasParent == Has(node, "parentId") /\ MapHas(nl, node.parentId)
        parentAbs == IF hasParent THEN MapGet(nl, node.parentId).internals.positionAbsolute
                     ELSE [x |-> 0, y |-> 0]
        origin == FieldOr(node, "origin", origin0)
        pm == IF hasParent THEN MapGet(nl, node.parentId).measured ELSE << >>
        extent ==
            IF isParentExtent(node) /\ ~FieldOr(node, "expandParent", FALSE)
            THEN IF hasParent /\ FieldOr(pm, "width", 0) # 0 /\ FieldOr(pm, "height", 0) # 0
                 THEN CoordExtent(parentAbs.x, parentAbs.y,
                                  parentAbs.x + pm.width, parentAbs.y + pm.height)
                 ELSE extent0
            ELSE IF hasParent /\ isCoordinateExtent(node)
                 THEN LET e == node.extent.value
                      IN  IF e.infinite THEN e
                          ELSE CoordExtent(e.x1 + parentAbs.x, e.y1 + parentAbs.y,
                                           e.x2 + parentAbs.x, e.y2 + parentAbs.y)
                 ELSE extent0
        positionAbsolute == clampPosition(nextPosition, extent, node.measured)
    IN  [position |-> [x |-> positionAbsolute.x - parentAbs.x
                               + FieldOr(node.measured, "width", 0) * origin[1],
                       y |-> positionAbsolute.y - parentAbs.y
                               + FieldOr(node.measured, "height", 0) * origin[2]],
         positionAbsolute |-> positionAbsolute]

(***************************************************************************)
(* react store (store/index.ts): the operations as functions of the store  *)
(* state `st`, a record of the state variables                             *)
(***************************************************************************)
Kinds == {"nodes", "edges"}

StoreState ==
    [nodes |-> nodes, nodeLookup |-> nodeLookup, parentLookup |-> parentLookup,
     nodeExtent |-> nodeExtent, nodeOrigin |-> nodeOrigin,
     elevateNodesOnSelect |-> elevateNodesOnSelect, storeParams |-> storeParams,
     hasDefaultNodes |-> hasDefaultNodes, edges |-> edges, edgeLookup |-> edgeLookup,
     connectionLookup |-> connectionLookup, hasDefaultEdges |-> hasDefaultEdges,
     handlers |-> handlers, notified |-> notified]

\* The user objects the store holds: state.nodes / state.edges and the userNode of
\* every internal node.
StoreUserRefs(st) ==
    Refs(st.nodes) \cup Refs(st.edges)
        \cup {st.nodeLookup[i].value.internals.userNode.ref : i \in DOMAIN st.nodeLookup}
        \cup {st.edgeLookup[i].value.ref : i \in DOMAIN st.edgeLookup}

\* A call of the consumer's handler, with the store state the handler can read.
notify(st, handler, cs) ==
    With(st, "notified",
         Append(st.notified,
                [handler |-> handler, changes |-> cs, nodes |-> st.nodes,
                 nodeLookup |-> st.nodeLookup, parentLookup |-> st.parentLookup,
                 edges |-> st.edges, edgeLookup |-> st.edgeLookup]))

\* setNodes(nodes): `nodeExtent` is the parameter createStore was called with.
setNodes(st, ns) ==
    LET o0 == [nodeOrigin |-> st.nodeOrigin, elevateNodesOnSelect |-> st.elevateNodesOnSelect,
               checkEquality |-> TRUE]
        options == IF Has(st.storeParams, "nodeExtent")
                   THEN With(o0, "nodeExtent", st.storeParams.nodeExtent) ELSE o0
        set(adopted) == [st EXCEPT !.nodes = ns, !.nodeLookup = adopted.nodeLookup,
                                   !.parentLookup = adopted.parentLookup]
    IN  set(adoptUserNodes(ns, st.nodeLookup, options))

setEdges(st, es) ==
    LET set(updated) == [st EXCEPT !.edges = es, !.edgeLookup = updated.edgeLookup,
                                   !.connectionLookup = updated.connectionLookup]
    IN  set(updateConnectionLookup(es, << >>, << >>))

\* triggerNodeChanges(changes); `live` holds the refs of user objects alive outside
\* the store.
triggerNodeChanges(st, cs, live) ==
    IF cs = << >> THEN st
    ELSE LET call(st1) ==
                 IF "onNodesChange" \in st.handlers THEN notify(st1, "onNodesChange", cs)
                 ELSE st1
         IN  call(IF st.hasDefaultNodes
                  THEN setNodes(st, applyChanges(cs, st.nodes, live \cup StoreUserRefs(st)))
                  ELSE st)

triggerEdgeChanges(st, cs, live) ==
    IF cs = << >> THEN st
    ELSE LET call(st1) ==
                 IF "onEdgesChange" \in st.handlers THEN notify(st1, "onEdgesChange", cs)
                 ELSE st1
         IN  call(IF st.hasDefaultEdges
                  THEN setEdges(st, applyChanges(cs, st.edges, live \cup StoreUserRefs(st)))
                  ELSE st)

\* The loop of updateNodePositions over the drag items: changes and parentExpandChildren.
RECURSIVE dragChanges(_, _, _, _)
dragChanges(dragItems, nl, dragging, acc) ==
    IF dragItems = << >> THEN acc
    ELSE LET id == Head(dragItems).key
             dragItem == Head(dragItems).value
             known == MapHas(nl, id)
             expandParent == known /\ FieldOr(MapGet(nl, id), "expandParent", FALSE)
                                /\ Has(MapGet(nl, id), "parentId") /\ Has(dragItem, "position")
             change == [id |-> id, type |-> "position",
                        position |-> IF expandParent
                                     THEN [x |-> Max(0, dragItem.position.x),
                                           y |-> Max(0, dragItem.position.y)]
                                     ELSE dragItem.position,
                        dragging |-> dragging]
             child == [id |-> id, parentId |-> MapGet(nl, id).parentId,
                       rect |-> [x |-> dragItem.internals.positionAbsolute.x,
                                 y |-> dragItem.internals.positionAbsolute.y,
                                 width |-> FieldOr(dragItem.measured, "width", 0),
                                 height |-> FieldOr(dragItem.measured, "height", 0)]]
         IN  dragChanges(Tail(dragItems), nl, dragging,
                         [changes |-> Append(acc.changes, change),
                          parentExpandChildren |->
                              IF expandParent THEN Append(acc.parentExpandChildren, child)
                              ELSE acc.parentExpandChildren])

updateNodePositions(st, nodeDragItems, dragging, live) ==
    LET looped == dragChanges(nodeDragItems, st.nodeLookup, dragging,
                              [changes |-> << >>, parentExpandChildren |-> << >>])
        parentExpandChanges ==
            IF looped.parentExpandChildren # << >>
            THEN handleExpandParent(looped.parentExpandChildren, st.nodeLookup,
                                    st.parentLookup, st.nodeOrigin)
            ELSE << >>
    IN  triggerNodeChanges(st, looped.changes \o parentExpandChanges, live)

setNodeExtent(st, nextNodeExtent) ==
    IF nextNodeExtent = st.nodeExtent THEN st
    ELSE LET set(adopted) == [st EXCEPT !.nodeLookup = adopted.nodeLookup,
                                        !.parentLookup = adopted.parentLookup,
                                        !.nodeExtent = nextNodeExtent]
         IN  set(adoptUserNodes(st.nodes, st.nodeLookup,
                                [nodeOrigin |-> st.nodeOrigin, nodeExtent |-> nextNodeExtent,
                                 elevateNodesOnSelect |-> st.elevateNodesOnSelect,
                                 checkEquality |-> FALSE]))

\* The handle bounds updateNodeInternals reads from the DOM element of a node.
MeasuredHandleBounds == [source |-> "measured", target |-> "measured"]

\* One pass of the loop of updateNodeInternals (store utils) over updates.values().
\* An update is [id, dimensions, force]: `dimensions` is what getDimensions reads
\* from update.nodeElement.  acc holds the lookups and what the loop collected.
internalsUpdate(update, acc, origin0, extent0) ==
    LET nl == acc.nodeLookup
        pl == acc.parentLookup
        dimensions == update.dimensions
        measure(node) ==
            LET dimensionChanged ==
                    \/ ~Has(node.measured, "width") \/ ~Has(node.measured, "height")
                    \/ node.measured.width # dimensions.width
                    \/ node.measured.height # dimensions.height
                doUpdate ==
                    /\ dimensions.width # 0 /\ dimensions.height # 0
                    /\ (dimensionChanged \/ ~Has(node.internals, "handleBounds") \/ update.force)
                extent == IF isCoordinateExtent(node) THEN node.extent.value ELSE extent0
                positionAbsolute ==
                    IF Has(node, "parentId") /\ isParentExtent(node)
                    THEN clampPositionToParent(node.internals.positionAbsolute, dimensions,
                                               MapGet(nl, node.parentId))
                    ELSE clampPosition(node.internals.positionAbsolute, extent, dimensions)
                newNode ==
                    With(With(With(node, "measured", dimensions), "internals",
                              With([node.internals EXCEPT !.positionAbsolute = positionAbsolute],
                                   "handleBounds", MeasuredHandleBounds)),
                         "ref", FreshRef(LookupRefs(nl, pl)))
                set(nl1) ==
                    IF Has(node, "parentId")
                    THEN updateChildNode(newNode, nl1, pl, [nodeOrigin |-> origin0], {})
                    ELSE [nodeLookup |-> nl1, parentLookup |-> pl]
                collect(lookups) ==
                    [nodeLookup |-> lookups.nodeLookup, parentLookup |-> lookups.parentLookup,
                     updatedInternals |-> TRUE,
                     changes |->
                        IF dimensionChanged
                        THEN Append(acc.changes, [id |-> node.id, type |-> "dimensions",
                                                  dimensions |-> dimensions])
                        ELSE acc.changes,
                     parentExpandChildren |->
                        IF dimensionChanged /\ FieldOr(node, "expandParent", FALSE)
                           /\ Has(node, "parentId")
                        THEN Append(acc.parentExpandChildren,
                                    [id |-> node.id, parentId |-> node.parentId,
                                     rect |-> nodeToRect(newNode)])
                        ELSE acc.parentExpandChildren]
            IN  IF FieldOr(node, "hidden", FALSE)
                THEN [acc EXCEPT !.nodeLookup =
                                     MapSet(nl, node.id,
                                            With(With(node, "internals",
                                                      Without(node.internals, "handleBounds")),
                                                 "ref", FreshRef(LookupRefs(nl, pl)))),
                                 !.updatedInternals = TRUE]
                ELSE IF doUpdate THEN collect(set(MapSet(nl, node.id, newNode)))
                ELSE acc
    IN  IF ~MapHas(nl, update.id) THEN acc ELSE measure(MapGet(nl, update.id))

RECURSIVE internalsLoop(_, _, _, _)
internalsLoop(updates, acc, origin0, extent0) ==
    IF updates = << >> THEN acc
    ELSE internalsLoop(Tail(updates), internalsUpdate(Head(updates), acc, origin0, extent0),
                       origin0, extent0)

\* updateNodeInternals(updates, nodeLookup, parentLookup, domNode, nodeOrigin, nodeExtent)
\* of store utils; hasViewport: domNode holds the .xyflow__viewport element.
updateNodeInternalsSystem(updates, nl, pl, hasViewport, origin0, extent0) ==
    LET finish(looped) ==
            [nodeLookup |-> looped.nodeLookup, parentLookup |-> looped.parentLookup,
             updatedInternals |-> looped.updatedInternals,
             changes |->
                IF looped.parentExpandChildren # << >>
                THEN looped.changes \o handleExpandParent(looped.parentExpandChildren,
                                                          looped.nodeLookup,
                                                          looped.parentLookup, origin0)
                ELSE looped.changes]
    IN  IF ~hasViewport
        THEN [nodeLookup |-> nl, parentLookup |-> pl, updatedInternals |-> FALSE,
              changes |-> << >>]
        ELSE finish(internalsLoop(updates,
                                  [nodeLookup |-> nl, parentLookup |-> pl,
                                   updatedInternals |-> FALSE, changes |-> << >>,
                                   parentExpandChildren |-> << >>],
                                  origin0, extent0))

\* The loop of updateAbsolutePositions over nodeLookup.values(): the i-th entry on.
RECURSIVE absolutePositionsFrom(_, _, _)
absolutePositionsFrom(i, lookups, o) ==
    IF i > Len(lookups.nodeLookup) THEN lookups
    ELSE LET nl == lookups.nodeLookup
             node == nl[i].value
             clampedPosition ==
                 clampPosition(getNodePositionWithOrigin(node, o.nodeOrigin),
                               IF isCoordinateExtent(node) THEN node.extent.value
                               ELSE o.nodeExtent,
                               getNodeDimensions(node))
         IN  absolutePositionsFrom(
                 i + 1,
                 IF Has(node, "parentId")
                 THEN updateChildNode(node, nl, lookups.parentLookup, o, {})
                 ELSE [nodeLookup |->
                           [nl EXCEPT ![i].value.internals.positionAbsolute = clampedPosition],
                       parentLookup |-> lookups.parentLookup],
                 o)

\* updateAbsolutePositions(nodeLookup, parentLookup, options)
updateAbsolutePositions(nl, pl, options) ==
    absolutePositionsFrom(1, [nodeLookup |-> nl, parentLookup |-> pl],
                          mergeObjects(defaultOptions, options))

\* updateNodeInternals(updates) of the react store.  fitViewOnInit is not set, so
\* the fit-view branch is not taken.
updateNodeInternals(st, updates, hasViewport, live) ==
    LET placed(measured, lookups) ==
            triggerNodeChanges([st EXCEPT !.nodeLookup = lookups.nodeLookup,
                                          !.parentLookup = lookups.parentLookup],
                               measured.changes, live)
        positioned(measured) ==
            IF ~measured.updatedInternals THEN st
            ELSE placed(measured,
                        updateAbsolutePositions(measured.nodeLookup, measured.parentLookup,
                                                [nodeOrigin |-> st.nodeOrigin,
                                                 nodeExtent |-> st.nodeExtent]))
    IN  positioned(updateNodeInternalsSystem(updates, st.nodeLookup, st.parentLookup,
                                             hasViewport, st.nodeOrigin, st.nodeExtent))

\* The assignment of a store state to the state variables.
StoreBecomes(st) ==
    /\ nodes' = st.nodes
    /\ nodeLookup' = st.nodeLookup
    /\ parentLookup' = st.parentLookup
    /\ nodeExtent' = st.nodeExtent
    /\ edges' = st.edges
    /\ edgeLookup' = st.edgeLookup
    /\ connectionLookup' = st.connectionLookup
    /\ notified' = st.notified
    /\ UNCHANGED <<nodeOrigin, elevateNodesOnSelect, storeParams, hasDefaultNodes,
                   hasDefaultEdges, handlers, viewVars, gesture>>

(***************************************************************************)
(* Harness for the pure functions of changes.ts                            *)
(***************************************************************************)
MaxChanges == 3

HarnessIds == <<"a", "b", "c">>
IdIndex(id) == CHOOSE i \in DOMAIN HarnessIds : HarnessIds[i] = id

\* The stored object for an id, a value-equal new object, and a changed new object.
StoredEl(id) == [ref |-> IdIndex(id), id |-> id, position |-> [x |-> 0, y |-> 0]]
EqualEl(id) == [ref |-> 3 + IdIndex(id), id |-> id, position |-> [x |-> 0, y |-> 0]]
MovedEl(id) == [ref |-> 3 + IdIndex(id), id |-> id, position |-> [x |-> 2, y |-> 1]]

\* All arrays over a set of candidate objects in which no id occurs twice.
UniqueArrays(objs) ==
    {arr \in UNION {[1..n -> objs] : n \in 0..Len(HarnessIds)} :
        \A i, j \in DOMAIN arr : arr[i].id = arr[j].id => i = j}

CurArrays == UniqueArrays({StoredEl(id) : id \in Range(HarnessIds)})
NextArrays == UniqueArrays(UNION {{StoredEl(id), EqualEl(id), MovedEl(id)} : id \in Range(HarnessIds)})

\* The Map built from an element array: the edgeLookup of updateConnectionLookup, or
\* the nodeLookup of adoptUserNodes.
edgeLookupOf(arr) == [i \in DOMAIN arr |-> [key |-> arr[i].id, value |-> arr[i]]]
nodeLookupOf(arr) == adoptUserNodes(arr, << >>, << >>).nodeLookup

\* Elements and change lists for applyChanges.
ElA == [ref |-> 1, id |-> "a", position |-> [x |-> 0, y |-> 0]]
ElB == [ref |-> 2, id |-> "b", position |-> [x |-> 1, y |-> 1], selected |-> TRUE,
        measured |-> [width |-> 2, height |-> 2]]
ItemA == [ref |-> 5, id |-> "a", position |-> [x |-> 4, y |-> 4], selected |-> FALSE]
ItemC == [ref |-> 6, id |-> "c", position |-> [x |-> 3, y |-> 3]]

ApplyArrays == {<<ElA>>, <<ElA, ElB>>, <<ElB, ElA>>}

ChangeKinds ==
    {[id |-> "a", type |-> "remove"],
     [id |-> "a", type |-> "replace", item |-> ItemA],
     [id |-> "a", type |-> "select", selected |-> TRUE],
     [id |-> "a", type |-> "select", selected |-> FALSE],
     [id |-> "a", type |-> "position", position |-> [x |-> 7, y |-> 8], dragging |-> TRUE],
     [id |-> "a", type |-> "position", dragging |-> FALSE],
     [id |-> "a", type |-> "dimensions", dimensions |-> [width |-> 5, height |-> 6],
      setAttributes |-> TRUE, resizing |-> TRUE],
     [id |-> "b", type |-> "remove"],
     [id |-> "b", type |-> "select", selected |-> FALSE],
     [id |-> "b", type |-> "dimensions", dimensions |-> [width |-> 9, height |-> 9]],
     [type |-> "add", item |-> ItemC, index |-> 0],
     [type |-> "add", item |-> ItemC]}

ChangeLists == UNION {[1..n -> ChangeKinds] : n \in 0..MaxChanges}

PureInit ==
    /\ result = << >>
    /\ \/ /\ pc = "diffInit"
          /\ elements \in CurArrays
          /\ items \in NextArrays
          /\ changes = << >>
          /\ diffLookup \in {edgeLookupOf(elements), nodeLookupOf(elements)}
       \/ /\ pc = "applyInit"
          /\ elements \in ApplyArrays
          /\ items = << >>
          /\ changes \in ChangeLists
          /\ diffLookup = << >>

\* getElementsDiffChanges({ items, diffLookup })
Diff ==
    /\ pc = "diffInit"
    /\ result' = getElementsDiffChanges(items, diffLookup)
    /\ pc' = "diffed"
    /\ UNCHANGED <<elements, items, changes, diffLookup>>

\* applyChanges(diff, elements), and the lookup built from its result
ApplyDiff ==
    /\ pc = "diffed"
    /\ changes' = result
    /\ result' = applyChanges(result, elements, Refs(items))
    /\ diffLookup' = IF \A i \in DOMAIN diffLookup : Has(diffLookup[i].value, "internals")
                 THEN nodeLookupOf(result') ELSE edgeLookupOf(result')
    /\ pc' = "applied"
    /\ UNCHANGED <<elements, items>>

\* getElementsDiffChanges of the same items against the lookup of the applied result
Rediff ==
    /\ pc = "applied"
    /\ result' = getElementsDiffChanges(items, diffLookup)
    /\ pc' = "rediffed"
    /\ UNCHANGED <<elements, items, changes, diffLookup>>

\* applyChanges(changes, elements)
Apply ==
    /\ pc = "applyInit"
    /\ result' = applyChanges(changes, elements, {})
    /\ pc' = "changed"
    /\ UNCHANGED <<elements, items, changes, diffLookup>>

PureNext == Diff \/ ApplyDiff \/ Rediff \/ Apply

(***************************************************************************)
(* Specification of the pure functions of changes.ts                        *)
(***************************************************************************)
\* The store createStore(params) builds when it is given no nodes and no edges;
\* `managed` says whether defaultNodes / defaultEdges were supplied and `hs` which
\* change handlers the consumer registered.
EmptyStore(params, managed, hs) ==
    [nodes |-> << >>, nodeLookup |-> << >>, parentLookup |-> << >>,
     nodeExtent |-> FieldOr(params, "nodeExtent", InfiniteExtent),
     nodeOrigin |-> FieldOr(params, "nodeOrigin", <<0, 0>>),
     elevateNodesOnSelect |-> TRUE, storeParams |-> params,
     hasDefaultNodes |-> managed, edges |-> << >>, edgeLookup |-> << >>,
     connectionLookup |-> << >>, hasDefaultEdges |-> managed,
     handlers |-> hs, notified |-> << >>]

\* No pointer gesture is in progress.
PointerIdle == gesture = << >>

\* The viewport of a store that no pan/zoom instance was attached to.
ViewIdle ==
    /\ panZoom = FALSE
    /\ transform = [x |-> 0, y |-> 0, k |-> 1]
    /\ minZoom = 1 /\ maxZoom = 2
    /\ translateExtent = InfiniteExtent

\* The state variables hold the store state st and no operation has run yet.
StoreHolds(st) ==
    /\ nodes = st.nodes /\ nodeLookup = st.nodeLookup /\ parentLookup = st.parentLookup
    /\ nodeExtent = st.nodeExtent /\ nodeOrigin = st.nodeOrigin
    /\ elevateNodesOnSelect = st.elevateNodesOnSelect /\ storeParams = st.storeParams
    /\ hasDefaultNodes = st.hasDefaultNodes
    /\ edges = st.edges /\ edgeLookup = st.edgeLookup
    /\ connectionLookup = st.connectionLookup
    /\ hasDefaultEdges = st.hasDefaultEdges
    /\ handlers = st.handlers /\ notified = st.notified
    /\ lastOp = [op |-> "none"]
    /\ triggered = 0

\* The same, with no pan/zoom instance attached.
StoreIs(st) == StoreHolds(st) /\ ViewIdle /\ PointerIdle

StoreIdle == StoreIs(EmptyStore(<< >>, FALSE, {}))

\* Two mounted queues that nothing was pushed to.
QueueIdle ==
    /\ queue = [k \in Kinds |-> << >>]
    /\ serial = [k \in Kinds |-> 0]
    /\ effectSerial = [k \in Kinds |-> 0]
    /\ phase = "sync"
    /\ tickPushes = [k \in Kinds |-> << >>]
    /\ tickRuns = [k \in Kinds |-> << >>]
    /\ pushed = [k \in Kinds |-> 0]
    /\ delivered = [k \in Kinds |-> << >>]
    /\ lastFlush = [k \in Kinds |-> << >>]

PureIdle ==
    /\ pc = "idle" /\ elements = << >> /\ items = << >> /\ changes = << >>
    /\ diffLookup = << >> /\ result = << >>

InitChanges == PureInit /\ StoreIdle /\ QueueIdle

NextChanges == PureNext /\ UNCHANGED <<storeVars, queueVars>>

SpecChanges == InitChanges /\ [][NextChanges]_vars

(***************************************************************************)
(* Properties of getElementsDiffChanges and applyChanges                    *)
(***************************************************************************)
\* The id a change is about.
ChangeId(c) == IF c.type = "add" THEN c.item.id ELSE c.id

\* The indices of the changes of cs about an id.
About(cs, id) == {i \in DOMAIN cs : ChangeId(cs[i]) = id}

\* The position of an id in an array (0 when absent).
PosOf(arr, id) == IF \E i \in DOMAIN arr : arr[i].id = id
                  THEN CHOOSE i \in DOMAIN arr : arr[i].id = id ELSE 0

\* The largest index of seq whose entry satisfies Test (0 when none does).
LastIdx(seq, Test(_)) ==
    IF \E i \in DOMAIN seq : Test(seq[i])
    THEN CHOOSE i \in DOMAIN seq : Test(seq[i]) /\ \A j \in DOMAIN seq : Test(seq[j]) => j <= i
    ELSE 0

\* C2: for next items with unique ids the diff holds exactly one replace per stored id
\* whose object differs by reference (carrying the new item), one add per id that
\* is not stored (carrying the item and its index in next), one remove per stored id
\* absent from next, and nothing for a reference-identical item; replace / add
\* changes come first in the order of next, the removals follow in lookup order.
C2_DiffExact ==
    pc = "diffed" =>
        /\ \A k \in DOMAIN items :
              LET item == items[k]
                  about == About(result, item.id)
              IN  IF ~MapHas(diffLookup, item.id)
                  THEN \E i \in DOMAIN result :
                          /\ about = {i}
                          /\ result[i] = [item |-> item, type |-> "add", index |-> k - 1]
                  ELSE IF storeItemOf(MapGet(diffLookup, item.id)).ref # item.ref
                  THEN \E i \in DOMAIN result :
                          /\ about = {i}
                          /\ result[i] = [id |-> item.id, item |-> item, type |-> "replace"]
                  ELSE about = {}
        /\ \A k \in DOMAIN diffLookup :
              LET id == diffLookup[k].key
              IN  PosOf(items, id) = 0 =>
                      \E i \in DOMAIN result :
                          /\ About(result, id) = {i}
                          /\ result[i] = [id |-> id, type |-> "remove"]
        /\ \A i \in DOMAIN result :
              \/ PosOf(items, ChangeId(result[i])) > 0
              \/ MapHas(diffLookup, ChangeId(result[i]))
        /\ \A i, j \in DOMAIN result :
              i < j =>
                  LET ci == result[i]
                      cj == result[j]
                  IN  /\ ci.type = "remove" => cj.type = "remove"
                      /\ (ci.type # "remove" /\ cj.type # "remove")
                            => PosOf(items, ChangeId(ci)) < PosOf(items, ChangeId(cj))
                      /\ (ci.type = "remove" /\ cj.type = "remove")
                            => PosOf(MapValues(diffLookup), ci.id)
                                  < PosOf(MapValues(diffLookup), cj.id)

\* A diff that holds a replace for a value-equal object, an add and a remove.
C2_Witness ==
    /\ pc = "diffed"
    /\ \E i, j, k \in DOMAIN result :
          /\ result[i].type = "replace"
          /\ Without(result[i].item, "ref")
                = Without(storeItemOf(MapGet(diffLookup, result[i].id)), "ref")
          /\ result[j].type = "add"
          /\ result[k].type = "remove"

\* The changes of the first diff that carry an item.
Carried(cs) == SelectSeq(cs, LAMBDA c : c.type \in {"replace", "add"})

\* C3 (as the code behaves): re-diffing the same items against the lookup built from
\* the applied result yields exactly one replace change per item that the first
\* diff replaced or added, in the order of next, and no add and no remove; it is
\* empty exactly when the first diff replaced and added nothing.
C3_RediffReplacesCarried ==
    pc = "rediffed" =>
        result = [i \in DOMAIN Carried(changes) |->
                     [id |-> Carried(changes)[i].item.id, item |-> Carried(changes)[i].item,
                      type |-> "replace"]]

\* C3 as stated: the re-diff is the empty list.
C3_RediffEmpty == pc = "rediffed" => result = << >>

\* A re-diff after a first diff that replaced one item and added another.
C3_Witness ==
    /\ pc = "rediffed"
    /\ \E i, j \in DOMAIN changes : changes[i].type = "replace" /\ changes[j].type = "add"
    /\ Len(result) = Len(Carried(changes))
    /\ result # << >>

\* The elements of cur that next keeps appear in next in the same relative order.
KeptInOrder(cur, next) ==
    \A i, j \in DOMAIN cur :
        (i < j /\ PosOf(next, cur[i].id) > 0 /\ PosOf(next, cur[j].id) > 0)
            => PosOf(next, cur[i].id) < PosOf(next, cur[j].id)

\* C4: when next keeps the elements of cur in their relative order, every add of
\* the diff carries the index of its item in next and applying the diff to cur
\* gives the id sequence of next; applyChanges inserts each add after all removals
\* and edits, at its index in the array built so far, or at the end without index.
C4_RoundTrip ==
    /\ (pc = "applied" /\ KeptInOrder(elements, items)) =>
          /\ Ids(result) = Ids(items)
          /\ \A i \in DOMAIN changes :
                changes[i].type = "add" =>
                    changes[i].index = PosOf(items, changes[i].item.id) - 1
    /\ pc = "changed" =>
          LET adds == SelectSeq(changes, LAMBDA c : c.type = "add")
              added == {i \in DOMAIN result : result[i].id = "c"}
              rest == SelectSeq(result, LAMBDA e : e.id # "c")
              last == adds[Len(adds)]
          IN  /\ Cardinality(added) = Len(adds)
              /\ \A i \in DOMAIN rest : PosOf(elements, rest[i].id) > 0
              /\ adds # << >> =>
                    IF Has(last, "index")
                    THEN result[Min(last.index, Len(result) - 1) + 1].id = "c"
                    ELSE result[Len(result)].id = "c"

\* cur [A, B] and next [A, X, B]: an add with index 1 and the result [A, X, B].
C4_Witness ==
    /\ pc = "applied"
    /\ Ids(elements) = <<"a", "b">>
    /\ Ids(items) = <<"a", "c", "b">>
    /\ \E i \in DOMAIN changes : changes[i].type = "add" /\ changes[i].index = 1
    /\ Ids(result) = <<"a", "c", "b">>

\* The remove / replace change that decides an id: the last one of the list, as a
\* sequence of at most one change.
Deciding(cs, id) ==
    LET k == LastIdx(cs, LAMBDA c : c.type \in {"remove", "replace"} /\ c.id = id)
    IN  IF k = 0 THEN << >> ELSE <<cs[k]>>

\* The elements of the output that stem from the input array (every add of the
\* harness carries the id "c", which no input element has).
Surviving(res) == SelectSeq(res, LAMBDA e : e.id # "c")

\* The input elements whose deciding change is not a remove.
Survivors(cs, els) ==
    SelectSeq(els, LAMBDA e : Deciding(cs, e.id) = << >> \/ Deciding(cs, e.id)[1].type # "remove")

\* The refs of every object handed to applyChanges.
InputRefs == Refs(elements) \cup ChangeItemRefs(changes)

\* C5: for an element id with at least one remove or replace change, the last such
\* change alone decides: after a remove the element is absent from the output,
\* after a replace the output holds, in the element's place, a shallow copy of the
\* replacement item; select, position and dimensions changes for that id, queued
\* before or after, have no effect.
C5_RemoveReplaceSupersede ==
    pc = "changed" =>
        /\ Ids(Surviving(result)) = Ids(Survivors(changes, elements))
        /\ \A i \in DOMAIN Survivors(changes, elements) :
              LET e == Survivors(changes, elements)[i]
                  out == Surviving(result)[i]
              IN  Deciding(changes, e.id) # << >> =>
                      /\ Without(out, "ref") = Without(Deciding(changes, e.id)[1].item, "ref")
                      /\ out.ref \notin InputRefs
        /\ \A e \in Range(elements) :
              (Deciding(changes, e.id) # << >> /\ Deciding(changes, e.id)[1].type = "remove")
                  => PosOf(result, e.id) = 0

\* A replace of "a" between a select and a position change, and a select of "b"
\* after its remove: the output holds the replacement item alone.
C5_Witness ==
    /\ pc = "changed"
    /\ elements = <<ElB, ElA>>
    /\ changes = <<[id |-> "a", type |-> "select", selected |-> TRUE],
                   [id |-> "a", type |-> "replace", item |-> ItemA],
                   [id |-> "a", type |-> "position", position |-> [x |-> 7, y |-> 8],
                    dragging |-> TRUE]>>
    /\ Len(result) = 2
    /\ result[2].position = ItemA.position
    /\ result[2].selected = FALSE
    /\ ~Has(result[2], "dragging")

\* The element an input element becomes under its select / position / dimensions
\* changes: every property holds the value its last writer gave it.
Edited(e, cs) ==
    LET sel == LastIdx(cs, LAMBDA c : c.type = "select")
        pos == LastIdx(cs, LAMBDA c : c.type = "position" /\ Has(c, "position"))
        drg == LastIdx(cs, LAMBDA c : c.type = "position" /\ Has(c, "dragging"))
        dim == LastIdx(cs, LAMBDA c : c.type = "dimensions" /\ Has(c, "dimensions"))
        att == LastIdx(cs, LAMBDA c : c.type = "dimensions" /\ Has(c, "dimensions")
                                        /\ FieldOr(c, "setAttributes", FALSE))
        rsz == LastIdx(cs, LAMBDA c : c.type = "dimensions" /\ Has(c, "resizing"))
        e1 == IF sel > 0 THEN With(e, "selected", cs[sel].selected) ELSE e
        e2 == IF pos > 0 THEN With(e1, "position", cs[pos].position) ELSE e1
        e3 == IF drg > 0 THEN With(e2, "dragging", cs[drg].dragging) ELSE e2
        e4 == IF dim > 0
              THEN With(e3, "measured",
                        With(With(FieldOr(e, "measured", << >>),
                                  "width", cs[dim].dimensions.width),
                             "height", cs[dim].dimensions.height))
              ELSE e3
        e5 == IF att > 0
              THEN With(With(e4, "width", cs[att].dimensions.width),
                        "height", cs[att].dimensions.height)
              ELSE e4
    IN  IF rsz > 0 THEN With(e5, "resizing", cs[rsz].resizing) ELSE e5

\* The changes of cs that target an element id (an add targets no element).
Targeting(cs, id) == SelectSeq(cs, LAMBDA c : c.type # "add" /\ c.id = id)

\* C6: in the output of applyChanges every input element that no change targets is
\* the identical object, the surviving elements keep their relative order, and
\* every element targeted by select / position / dimensions changes only is one
\* new object carrying all of its changes applied in arrival order; a change whose
\* id matches no element has no effect.
C6_Frame ==
    pc = "changed" =>
        /\ Ids(Surviving(result)) = Ids(Survivors(changes, elements))
        /\ \A i \in DOMAIN Survivors(changes, elements) :
              LET e == Survivors(changes, elements)[i]
                  out == Surviving(result)[i]
                  mine == Targeting(changes, e.id)
              IN  /\ mine = << >> => out = e
                  /\ (mine # << >> /\ Deciding(changes, e.id) = << >>) =>
                        /\ out.ref \notin InputRefs
                        /\ Without(out, "ref") = Without(Edited(e, mine), "ref")
        /\ \A i, j \in DOMAIN result : result[i].ref = result[j].ref => i = j
        /\ \A i \in DOMAIN result : PosOf(elements, result[i].id) > 0 \/ result[i].id = "c"

\* "a" is selected, dragged and unselected again while "b" is untouched and a
\* change for "b" meets an array without "b".
C6_Witness ==
    /\ pc = "changed"
    /\ \/ /\ elements = <<ElA, ElB>>
          /\ changes = <<[id |-> "a", type |-> "select", selected |-> TRUE],
                         [id |-> "a", type |-> "position", dragging |-> FALSE],
                         [id |-> "a", type |-> "select", selected |-> FALSE]>>
          /\ result[2] = ElB
          /\ result[1].selected = FALSE /\ result[1].dragging = FALSE
          /\ result[1].ref # ElA.ref
       \/ /\ elements = <<ElA>>
          /\ changes = <<[id |-> "b", type |-> "select", selected |-> FALSE]>>
          /\ result = <<ElA>>

(***************************************************************************)
(* Batching queues: useQueue.ts, createQueue, and the queue handlers of the *)
(* BatchProvider.  React batches the state updates of one tick: a push only *)
(* schedules a render, and the layout effect of useQueue runs when that     *)
(* render commits and `serial` differs from the value it last ran for.      *)
(***************************************************************************)
MaxCalls == 3

\* A variant of the updater that sets a dirty flag.
setSerialFlag(n) == 1

\* setSerial((n) => n + BigInt(1))
setSerial(n) == n + 1

\* A payload is an array ([fn |-> FALSE, value |-> arr]) or an updater function
\* ([fn |-> TRUE, name |-> ..]); an updater with the field `pushes` calls queue.push
\* with that payload while it runs.
callPayload(payload, acc) ==
    CASE payload.name = "addOnce" ->
            IF \E i \in DOMAIN acc : acc[i].id = payload.item.id THEN acc
            ELSE Append(acc, payload.item)
      [] payload.name = "dropFirst" -> IF acc = << >> THEN acc ELSE Tail(acc)
      [] OTHER -> acc

\* A variant of the loop step that lets an array payload pass without effect.
nextOfKeepingArrays(payload, next) ==
    IF payload.fn THEN callPayload(payload, next) ELSE next

\* next = typeof payload === 'function' ? payload(next) : payload
nextOf(payload, next) ==
    IF payload.fn THEN callPayload(payload, next) ELSE payload.value

\* queue.push(item) of createQueue on the queue record q = [items, serial, pushed]:
\* the item joins the pending array and cb() bumps the serial.
push(q, item) ==
    [items |-> Append(q.items, With(item, "tag", q.pushed + 1)),
     serial |-> setSerial(q.serial),
     pushed |-> q.pushed + 1]

\* The for-of loop of a queue handler over the pending array, which a payload may
\* extend while the loop runs; `received` collects what each payload was called with.
RECURSIVE runLoop(_, _, _, _)
runLoop(q, i, next, received) ==
    IF i > Len(q.items) THEN [q |-> q, next |-> next, received |-> received]
    ELSE LET payload == q.items[i]
             q1 == IF Has(payload, "pushes") THEN push(q, payload.pushes) ELSE q
         IN  runLoop(q1, i + 1, nextOf(payload, next), Append(received, next))

\* nodeQueueHandler / edgeQueueHandler on the environment env = [st, q]; `reentry`
\* holds the payloads the consumer's change handler pushes when it is called.
queueHandler(kind, env, reentry) ==
    LET st == env.st
        start == IF kind = "nodes" THEN st.nodes ELSE st.edges
        managed == IF kind = "nodes" THEN st.hasDefaultNodes ELSE st.hasDefaultEdges
        handler == IF kind = "nodes" THEN "onNodesChange" ELSE "onEdgesChange"
        lookup == IF kind = "nodes" THEN st.nodeLookup ELSE st.edgeLookup
        called == ~managed /\ handler \in st.handlers
        \* the branch on the ownership mode, after the loop
        handled(looped) ==
            [st |-> IF managed
                    THEN (IF kind = "nodes" THEN setNodes(st, looped.next)
                          ELSE setEdges(st, looped.next))
                    ELSE IF called
                    THEN notify(st, handler, getElementsDiffChanges(looped.next, lookup))
                    ELSE st,
             q |-> IF called /\ reentry # << >> THEN push(looped.q, reentry[1]) ELSE looped.q,
             flush |-> [start |-> start, payloads |-> looped.q.items,
                        received |-> looped.received, result |-> looped.next]]
    IN  handled(runLoop(env.q, 1, start, << >>))

\* The layout effect of useQueue for one queue, with the render its own pushes
\* schedule: that render runs the effect again and finds the pending array empty.
layoutEffect(kind, env, reentry) ==
    IF env.q.serial = env.effectSerial THEN With(env, "flush", << >>)
    ELSE IF env.q.items = << >>
    THEN With([env EXCEPT !.effectSerial = env.q.serial], "flush", << >>)
    ELSE LET reset(ran) ==
                 [st |-> ran.st,
                  q |-> [ran.q EXCEPT !.items = << >>],
                  effectSerial |-> ran.q.serial,
                  flush |-> <<With(ran.flush, "given", env.q.items)>>]
         IN  reset(queueHandler(kind, env, reentry))

Tags(payloads) == [i \in DOMAIN payloads |-> payloads[i].tag]

(***************************************************************************)
(* Specification of the queues over the store                              *)
(***************************************************************************)
QA == [ref |-> 1, id |-> "a", position |-> [x |-> 0, y |-> 0]]
QB == [ref |-> 2, id |-> "b", position |-> [x |-> 10, y |-> 0]]
QX == [ref |-> 3, id |-> "x", position |-> [x |-> 5, y |-> 5]]
E1 == [ref |-> 4, id |-> "e1", source |-> "a", target |-> "b"]
E2 == [ref |-> 5, id |-> "e2", source |-> "b", target |-> "a", sourceHandle |-> "s"]
PoolRefs == {QA.ref, QB.ref, QX.ref, E1.ref, E2.ref}

NodePayloads ==
    {[fn |-> FALSE, value |-> <<QA, QB>>],
     [fn |-> TRUE, name |-> "addOnce", item |-> QX],
     [fn |-> TRUE, name |-> "dropFirst"],
     [fn |-> TRUE, name |-> "same"],
     [fn |-> TRUE, name |-> "same", pushes |-> [fn |-> FALSE, value |-> <<QB>>]]}

EdgePayloads ==
    {[fn |-> FALSE, value |-> <<E1>>],
     [fn |-> TRUE, name |-> "addOnce", item |-> E2]}

\* What a change handler pushes when it calls setNodes / setEdges of the instance.
ReentryPayload == [fn |-> TRUE, name |-> "same"]

NodeBatches == {<< >>, <<[id |-> "a", type |-> "select", selected |-> TRUE]>>}
EdgeBatches == {<<[id |-> "e1", type |-> "remove"]>>}

\* The calls event code and handlers made so far (queue.push, trigger*Changes), and
\* the calls of queue.push the queued payloads will make.
Budget ==
    pushed["nodes"] + pushed["edges"] + triggered
        + Cardinality({i \in DOMAIN queue["nodes"] : Has(queue["nodes"][i], "pushes")})

QueueOf(kind) == [items |-> queue[kind], serial |-> serial[kind], pushed |-> pushed[kind]]

Snapshot(st) ==
    [nodes |-> st.nodes, nodeLookup |-> st.nodeLookup, parentLookup |-> st.parentLookup,
     edges |-> st.edges, edgeLookup |-> st.edgeLookup]

NoneOf == [k \in Kinds |-> << >>]

InitFlow ==
    /\ \E managed \in BOOLEAN, hs \in {{}, {"onNodesChange", "onEdgesChange"}} :
          /\ managed => hs # {}
          /\ StoreIs(setEdges(setNodes(EmptyStore(<< >>, managed, hs), <<QA>>), <<E1>>))
    /\ QueueIdle
    /\ PureIdle

\* Event code calls queue.push(payload) on one of the two queues.
Push(kind, payload) ==
    /\ Budget + (IF Has(payload, "pushes") THEN 2 ELSE 1) <= MaxCalls
    /\ LET q == push(QueueOf(kind), payload)
           sofar == IF phase = "committed" THEN NoneOf ELSE tickPushes
       IN  /\ queue' = [queue EXCEPT ![kind] = q.items]
           /\ serial' = [serial EXCEPT ![kind] = q.serial]
           /\ pushed' = [pushed EXCEPT ![kind] = q.pushed]
           /\ tickPushes' = [sofar EXCEPT ![kind] = Append(@, q.pushed)]
    /\ tickRuns' = NoneOf
    /\ phase' = "sync"
    /\ UNCHANGED <<effectSerial, delivered, lastFlush, storeVars, pureVars>>

PushNodes == \E payload \in NodePayloads : Push("nodes", payload)

PushEdges == \E payload \in EdgePayloads : Push("edges", payload)

\* The tick ends: React commits the scheduled render and runs the layout effects
\* of the node queue and of the edge queue.
Commit ==
    \E reentryN, reentryE \in {<< >>, <<ReentryPayload>>} :
        /\ Budget + Len(reentryN) + Len(reentryE) <= MaxCalls
        /\ \E st0 \in {[StoreState EXCEPT !.notified = << >>]} :
           \E envN \in {layoutEffect("nodes", [st |-> st0, q |-> QueueOf("nodes"),
                                               effectSerial |-> effectSerial["nodes"]],
                                     reentryN)} :
           \E envE \in {layoutEffect("edges", [st |-> envN.st, q |-> QueueOf("edges"),
                                               effectSerial |-> effectSerial["edges"]],
                                     reentryE)} :
           LET env == [nodes |-> envN, edges |-> envE]
           IN  /\ StoreBecomes(envE.st)
               /\ lastOp' = [op |-> "commit", before |-> Snapshot(st0)]
               /\ queue' = [k \in Kinds |-> env[k].q.items]
               /\ serial' = [k \in Kinds |-> env[k].q.serial]
               /\ pushed' = [k \in Kinds |-> env[k].q.pushed]
               /\ effectSerial' = [k \in Kinds |-> env[k].effectSerial]
               /\ delivered' = [k \in Kinds |->
                                   delivered[k] \o (IF env[k].flush = << >> THEN << >>
                                                    ELSE Tags(env[k].flush[1].payloads))]
               /\ tickRuns' = [k \in Kinds |->
                                  IF env[k].flush = << >> THEN << >>
                                  ELSE <<Tags(env[k].flush[1].given)>>]
               /\ lastFlush' = [k \in Kinds |-> env[k].flush]
        /\ tickPushes' = IF phase = "committed" THEN NoneOf ELSE tickPushes
        /\ phase' = "committed"
        /\ UNCHANGED <<triggered, pureVars>>

\* Event code hands a change batch to triggerNodeChanges / triggerEdgeChanges.
TriggerNodeChanges ==
    \E cs \in NodeBatches :
        LET st0 == [StoreState EXCEPT !.notified = << >>]
        IN  /\ Budget < MaxCalls
            /\ triggered' = triggered + 1
            /\ StoreBecomes(triggerNodeChanges(st0, cs, PoolRefs))
            /\ lastOp' = [op |-> "trigger", kind |-> "nodes", batch |-> cs,
                          before |-> Snapshot(st0)]
            /\ UNCHANGED <<queueVars, pureVars>>

TriggerEdgeChanges ==
    \E cs \in EdgeBatches :
        LET st0 == [StoreState EXCEPT !.notified = << >>]
        IN  /\ Budget < MaxCalls
            /\ triggered' = triggered + 1
            /\ StoreBecomes(triggerEdgeChanges(st0, cs, PoolRefs))
            /\ lastOp' = [op |-> "trigger", kind |-> "edges", batch |-> cs,
                          before |-> Snapshot(st0)]
            /\ UNCHANGED <<queueVars, pureVars>>

NextFlow == PushNodes \/ PushEdges \/ Commit \/ TriggerNodeChanges \/ TriggerEdgeChanges

SpecFlow == InitFlow /\ [][NextFlow]_vars

(***************************************************************************)
(* Properties of the queues                                                *)
(***************************************************************************)
\* C7: the pushes event code makes on a queue within one tick are flushed by
\* exactly one runQueue call, made when the tick's render commits (after the last
\* push returned, never while event code is still pushing), and that call
\* receives all of them in call order; a tick without a push on a queue makes no
\* runQueue call for it.
C7_BatchingCollapse ==
    \A k \in Kinds :
        /\ phase = "sync" => tickRuns[k] = << >>
        /\ phase = "committed" =>
              IF tickPushes[k] = << >> THEN tickRuns[k] = << >>
              ELSE tickRuns[k] = <<tickPushes[k]>>

\* Three updater functions pushed in one tick reached one runQueue call, in order,
\* and the edge queue, which nothing was pushed to, was not flushed.
C7_Witness ==
    /\ phase = "committed"
    /\ Len(tickPushes["nodes"]) = 3
    /\ tickRuns["nodes"] = <<tickPushes["nodes"]>>
    /\ \A i \in 1..3 : lastFlush["nodes"][1].given[i].fn
    /\ tickRuns["edges"] = << >>

\* The fold of a payload list over a start collection, from the last payload back.
RECURSIVE LeftFold(_, _)
LeftFold(payloads, start) ==
    IF payloads = << >> THEN start
    ELSE LET last == payloads[Len(payloads)]
         IN  IF last.fn
             THEN callPayload(last, LeftFold(SubSeq(payloads, 1, Len(payloads) - 1), start))
             ELSE last.value

\* C8: the collection a flush produces is the left fold of its payloads in call
\* order over the store's collection: every updater function is called with the
\* result of all earlier payloads of the flush, an array payload replaces what was
\* accumulated, and in managed mode that collection becomes the store's.
C8_FlushIsLeftFold ==
    \A k \in Kinds :
        (lastOp.op = "commit" /\ lastFlush[k] # << >>) =>
            LET f == lastFlush[k][1]
                before == IF k = "nodes" THEN lastOp.before.nodes ELSE lastOp.before.edges
            IN  /\ f.start = before
                /\ f.result = LeftFold(f.payloads, before)
                /\ \A i \in DOMAIN f.payloads :
                      f.payloads[i].fn =>
                          f.received[i] = LeftFold(SubSeq(f.payloads, 1, i - 1), before)
                /\ \A i \in DOMAIN f.payloads :
                      (~f.payloads[i].fn /\ \A j \in DOMAIN f.payloads : j > i => f.payloads[j].fn)
                          => f.result = LeftFold(SubSeq(f.payloads, i + 1, Len(f.payloads)),
                                                 f.payloads[i].value)

\* A flush of an updater, an array and another updater: the array replaced what the
\* first updater produced and the last updater saw the array.
C8_Witness ==
    /\ lastOp.op = "commit"
    /\ lastFlush["nodes"] # << >>
    /\ LET f == lastFlush["nodes"][1]
       IN  /\ Len(f.payloads) = 3
           /\ f.payloads[1].fn /\ f.payloads[1].name = "dropFirst"
           /\ ~f.payloads[2].fn
           /\ f.payloads[3].fn /\ f.payloads[3].name = "addOnce"
           /\ f.received[3] = <<QA, QB>>
           /\ f.result = <<QA, QB, QX>>

\* How often a tag occurs in a sequence of tags.
Occurrences(tags, tag) == Cardinality({i \in DOMAIN tags : tags[i] = tag})

\* C9 as stated: the pending array is empty once a flush is over, and every payload
\* passed to queue.push is processed by runQueue in exactly one flush (it is
\* pending or was processed once), also when the push came from inside the flush.
C9_ExactlyOnce ==
    \A k \in Kinds :
        /\ phase = "committed" => queue[k] = << >>
        /\ \A tag \in 1..pushed[k] :
              Occurrences(delivered[k], tag) + Occurrences(Tags(queue[k]), tag) = 1

\* What holds of the code: no payload is processed twice, and a payload pushed by
\* an updater while the loop of runQueue runs is processed by that same flush.
C9_NeverTwice ==
    \A k \in Kinds :
        /\ \A tag \in 1..pushed[k] :
              Occurrences(delivered[k], tag) + Occurrences(Tags(queue[k]), tag) <= 1
        /\ lastFlush[k] # << >> =>
              \A i \in DOMAIN lastFlush[k][1].payloads :
                  Has(lastFlush[k][1].payloads[i], "pushes") =>
                      \E j \in DOMAIN lastFlush[k][1].payloads :
                          /\ j > i
                          /\ Without(lastFlush[k][1].payloads[j], "tag")
                                = lastFlush[k][1].payloads[i].pushes

\* The store's share of one kind: the element array and its lookups.
Share(k, snap) ==
    IF k = "nodes"
    THEN [array |-> snap.nodes, lookup |-> snap.nodeLookup, parents |-> snap.parentLookup]
    ELSE [array |-> snap.edges, lookup |-> snap.edgeLookup, parents |-> << >>]

Managed(k) == IF k = "nodes" THEN hasDefaultNodes ELSE hasDefaultEdges
HandlerOf(k) == IF k = "nodes" THEN "onNodesChange" ELSE "onEdgesChange"
CallsOf(k) == SelectSeq(notified, LAMBDA n : n.handler = HandlerOf(k))

\* The operation the last action ran for a kind: the change batch or the flush.
Processed(k) ==
    IF lastOp.op = "trigger" /\ lastOp.kind = k THEN <<[batch |-> lastOp.batch]>>
    ELSE IF lastOp.op = "commit" /\ lastFlush[k] # << >> THEN <<[flush |-> lastFlush[k][1]]>>
    ELSE << >>

\* Managed mode: the store holds the new collection and every call of the handler
\* saw the store already updated.
C10_Managed ==
    \A k \in Kinds :
        (Processed(k) # << >> /\ Managed(k)) =>
            /\ Has(Processed(k)[1], "flush") =>
                  /\ Share(k, StoreState).array = Processed(k)[1].flush.result
                  /\ Ids(Share(k, StoreState).array) = MapKeys(Share(k, StoreState).lookup)
            /\ (Has(Processed(k)[1], "batch") /\ Processed(k)[1].batch # << >>) =>
                  LET new == applyChanges(Processed(k)[1].batch,
                                          Share(k, lastOp.before).array, {})
                  IN  /\ [i \in DOMAIN new |-> Without(new[i], "ref")]
                            = [i \in DOMAIN Share(k, StoreState).array |->
                                  Without(Share(k, StoreState).array[i], "ref")]
                      /\ Ids(new) = MapKeys(Share(k, StoreState).lookup)
            /\ \A i \in DOMAIN CallsOf(k) : Share(k, CallsOf(k)[i]) = Share(k, StoreState)

\* Unmanaged mode: the store's share is untouched and a registered handler is
\* called once, with the batch or with the diff of the flush result.
C10_Unmanaged ==
    \A k \in Kinds :
        (Processed(k) # << >> /\ ~Managed(k)) =>
            /\ Share(k, StoreState) = Share(k, lastOp.before)
            /\ (HandlerOf(k) \in handlers /\ Has(Processed(k)[1], "flush")) =>
                  /\ Len(CallsOf(k)) = 1
                  /\ CallsOf(k)[1].changes
                        = getElementsDiffChanges(Processed(k)[1].flush.result,
                                                 Share(k, lastOp.before).lookup)
            /\ (HandlerOf(k) \in handlers /\ Has(Processed(k)[1], "batch")
                   /\ Processed(k)[1].batch # << >>) =>
                  /\ Len(CallsOf(k)) = 1
                  /\ CallsOf(k)[1].changes = Processed(k)[1].batch

\* No handler is called with an empty change batch, and an empty batch leaves the
\* store as it was.
C10_EmptyBatch ==
    /\ \A i \in DOMAIN notified : notified[i].changes # << >>
    /\ (lastOp.op = "trigger" /\ lastOp.batch = << >>) =>
          /\ notified = << >>
          /\ Snapshot(StoreState) = lastOp.before

\* C10 as stated: in managed mode the store is updated to the new collection
\* before the handler is notified; in unmanaged mode the store is left unchanged
\* and the handler receives the change batch (for a flush, the diff of the
\* accumulated result against the current lookup); an empty change batch neither
\* updates the store nor calls the handler.
C10_Ownership == C10_Managed /\ C10_Unmanaged /\ C10_EmptyBatch

(***************************************************************************)
(* Specification of the node operations of the store                       *)
(***************************************************************************)
MaxDrags == 1

NA1 == [ref |-> 1, id |-> "a", position |-> [x |-> 0, y |-> 0], width |-> 10, height |-> 10]
NA2 == [ref |-> 2, id |-> "a", position |-> [x |-> 30, y |-> 40], width |-> 10, height |-> 10]
NB1 == [ref |-> 3, id |-> "b", parentId |-> "a", position |-> [x |-> 5, y |-> 5],
        width |-> 4, height |-> 4]
NB2 == [ref |-> 4, id |-> "b", parentId |-> "a", position |-> [x |-> 20, y |-> 20],
        width |-> 4, height |-> 4, extent |-> [kind |-> "parent"], origin |-> <<1, 1>>]
NB3 == [ref |-> 5, id |-> "b", parentId |-> "a", position |-> [x |-> 8, y |-> 8],
        width |-> 4, height |-> 4, expandParent |-> TRUE]
NC1 == [ref |-> 6, id |-> "c", parentId |-> "b", position |-> [x |-> 2, y |-> 3],
        width |-> 2, height |-> 2]
NC2 == [ref |-> 7, id |-> "c", parentId |-> "b", position |-> [x |-> 9, y |-> 9],
        width |-> 2, height |-> 2,
        extent |-> [kind |-> "coord", value |-> CoordExtent(0, 0, 5, 5)]]
NodePoolRefs == {NA1.ref, NA2.ref, NB1.ref, NB2.ref, NB3.ref, NC1.ref, NC2.ref}

\* The arrays the consumer hands to setNodes: parents before their children down
\* to depth two, and two arrays in which a child precedes its parent.
NodeArrays ==
    {<<NA1>>, <<NA2, NB1>>, <<NA1, NB1, NC1>>, <<NA1, NB2, NC1>>, <<NA2, NB3, NC2>>,
     <<NB1, NA1>>, <<NA1, NC1, NB1>>}

Extent25 == CoordExtent(0, 0, 25, 25)
NodeExtents == {InfiniteExtent, Extent25}
DragTargets == {[x |-> 0 - 5, y |-> 0 - 5], [x |-> 12, y |-> 50]}

InitStore ==
    /\ \E managed \in BOOLEAN, params \in {<< >>, [nodeExtent |-> Extent25]} :
          StoreIs(EmptyStore(params, managed, {"onNodesChange", "onEdgesChange"}))
    /\ QueueIdle
    /\ PureIdle

\* The store before an operation: no handler has been called yet.
Before == [StoreState EXCEPT !.notified = << >>]

\* setNodes(nodes), as the node queue (managed mode) or the sync of the `nodes`
\* prop (unmanaged mode) calls it.
SetNodes ==
    \E ns \in NodeArrays :
        /\ StoreBecomes(setNodes(Before, ns))
        /\ lastOp' = [op |-> "setNodes"]
        /\ UNCHANGED <<triggered, queueVars, pureVars>>

SetNodeExtent ==
    \E nextNodeExtent \in NodeExtents :
        /\ StoreBecomes(setNodeExtent(Before, nextNodeExtent))
        /\ lastOp' = [op |-> "setNodeExtent"]
        /\ UNCHANGED <<triggered, queueVars, pureVars>>

\* A drag step: XYDrag computes the drag item of the dragged node with
\* calculateNodePosition and writes it through updateNodePositions.
UpdateNodePositions ==
    \E i \in DOMAIN nodeLookup, target \in DragTargets :
        LET node == nodeLookup[i].value
            moved == calculateNodePosition(node.id, target, nodeLookup, nodeOrigin, nodeExtent)
            dragItem == [id |-> node.id, position |-> moved.position,
                         measured |-> node.measured,
                         internals |-> [positionAbsolute |-> moved.positionAbsolute]]
        IN  /\ triggered < MaxDrags
            /\ triggered' = triggered + 1
            /\ StoreBecomes(updateNodePositions(Before, <<[key |-> node.id, value |-> dragItem]>>,
                                                TRUE, NodePoolRefs))
            /\ lastOp' = [op |-> "updateNodePositions"]
            /\ UNCHANGED <<queueVars, pureVars>>

NextStore == SetNodes \/ SetNodeExtent \/ UpdateNodePositions

SpecStore == InitStore /\ [][NextStore]_vars

(***************************************************************************)
(* Properties of the node operations of the store                          *)
(***************************************************************************)
\* The whole parent chain of a node precedes it in the node array.
RECURSIVE ChainPrecedes(_, _)
ChainPrecedes(node, arr) ==
    \/ ~Has(node, "parentId")
    \/ /\ PosOf(arr, node.parentId) > 0
       /\ PosOf(arr, node.parentId) < PosOf(arr, node.id)
       /\ ChainPrecedes(arr[PosOf(arr, node.parentId)], arr)

\* A coordinate pushed into [low, high]; when a node is larger than its extent
\* (high < low) the upper end is taken.
Into(v, low, high) == IF v > high \/ high < low THEN high ELSE IF v < low THEN low ELSE v

\* A position pushed into an extent, leaving room for the node's size.
Within(p, extent, size) ==
    IF extent.infinite THEN p
    ELSE [x |-> Into(p.x, extent.x1, extent.x2 - size.width),
          y |-> Into(p.y, extent.y1, extent.y2 - size.height)]

\* The absolute position a node of the lookup derives from its own position,
\* origin and extent, the store's extent, and its parent's current absolute
\* position.
DerivedAbsolute(node, lookup, extent0, origin0) ==
    LET size == [width |-> FieldOr(node.measured, "width", FieldOr(node, "width", 0)),
                 height |-> FieldOr(node.measured, "height", FieldOr(node, "height", 0))]
        origin == FieldOr(node, "origin", origin0)
        own == [x |-> node.position.x - origin[1] * size.width,
                y |-> node.position.y - origin[2] * size.height]
        ownExtent == IF isCoordinateExtent(node) THEN node.extent.value ELSE InfiniteExtent
    IN  IF ~Has(node, "parentId")
        THEN Within(own, IF isCoordinateExtent(node) THEN ownExtent ELSE extent0, size)
        ELSE LET parent == MapGet(lookup, node.parentId)
                 pa == parent.internals.positionAbsolute
                 psize == [width |-> FieldOr(parent.measured, "width", FieldOr(parent, "width", 0)),
                           height |-> FieldOr(parent.measured, "height",
                                              FieldOr(parent, "height", 0))]
                 rel == Within(own, ownExtent, size)
                 abs == Within([x |-> pa.x + rel.x, y |-> pa.y + rel.y], extent0, size)
             IN  IF isParentExtent(node)
                 THEN Within(abs, CoordExtent(pa.x, pa.y, pa.x + psize.width,
                                              pa.y + psize.height), size)
                 ELSE abs

\* Every node of the lookup whose parent chain precedes it holds the absolute
\* position derived under the extent extent0.
ConsistentUnder(extent0) ==
    \A i \in DOMAIN nodeLookup :
        LET node == nodeLookup[i].value
        IN  ChainPrecedes(node, nodes) =>
                /\ node.internals.positionAbsolute
                      = DerivedAbsolute(node, nodeLookup, extent0, nodeOrigin)
                /\ (extent0.infinite /\ ~Has(node, "extent") /\ Has(node, "parentId")) =>
                      LET pa == MapGet(nodeLookup, node.parentId).internals.positionAbsolute
                          d == getNodeDimensions(node)
                          o == FieldOr(node, "origin", nodeOrigin)
                      IN  node.internals.positionAbsolute
                              = [x |-> pa.x + node.position.x - o[1] * d.width,
                                 y |-> pa.y + node.position.y - o[2] * d.height]

\* C1 as stated: after every managed-mode store operation that changes nodes
\* (setNodes, updateNodePositions, setNodeExtent) every node of nodeLookup whose
\* whole parent chain precedes it in the node array holds the absolute position
\* derived from its own position, origin and extent, the store's node extent and
\* its parent's current absolute position, at every nesting depth.
C1_AbsoluteConsistent ==
    (hasDefaultNodes /\ lastOp.op \in {"setNodes", "updateNodePositions", "setNodeExtent"})
        => ConsistentUnder(nodeExtent)

\* What holds of the code: the positions are consistent whenever the store's node
\* extent is the one createStore was called with, which is the extent setNodes
\* clamps with.
C1_ConsistentUnderInitialExtent ==
    (nodeExtent = FieldOr(storeParams, "nodeExtent", InfiniteExtent))
        => ConsistentUnder(nodeExtent)

(***************************************************************************)
(* Specification of adoptUserNodes on its own: a pair of lookups that is    *)
(* re-adopted from arrays of user nodes under varying options               *)
(***************************************************************************)
\* A root that is selected, a root as small as the children and a root that is
\* smaller than them.
NAs == [ref |-> 8, id |-> "a", position |-> [x |-> 0, y |-> 0], width |-> 10, height |-> 10,
        selected |-> TRUE]
NA4 == [ref |-> 9, id |-> "a", position |-> [x |-> 2, y |-> 2], width |-> 4, height |-> 4]
NA0 == [ref |-> 10, id |-> "a", position |-> [x |-> 2, y |-> 2], width |-> 2, height |-> 2]

\* Children with extent: 'parent' at positions left of, inside and right of the
\* parent, with the two origins.
BoundPositions == <<[x |-> 0 - 5, y |-> 20], [x |-> 3, y |-> 3], [x |-> 20, y |-> 0 - 5]>>
BoundOrigins == <<<<0, 0>>, <<1, 1>>>>
BoundChild(i, k) ==
    [ref |-> 10 + 3 * (k - 1) + i, id |-> "b", parentId |-> "a",
     position |-> BoundPositions[i], width |-> 4, height |-> 4,
     extent |-> [kind |-> "parent"], origin |-> BoundOrigins[k]]
BoundChildren == {BoundChild(i, k) : i \in DOMAIN BoundPositions, k \in DOMAIN BoundOrigins}

AdoptArrays ==
    NodeArrays \cup {<<NAs, NB1>>, <<NAs, NB1, NC1>>}
        \cup {<<a, b>> : a \in {NA1, NA4, NA0}, b \in BoundChildren}
        \cup {<<NA2, BoundChild(1, 1)>>, <<NA2, BoundChild(3, 2)>>}
        \cup {<<NA2, NC1>>}

AdoptOptions ==
    {mergeObjects(e, c) : e \in {<< >>, [nodeExtent |-> Extent25]},
                          c \in {<< >>, [checkEquality |-> FALSE]}}

MaxAdopts == 2

InitAdopt == StoreIdle /\ QueueIdle /\ PureIdle

\* adoptUserNodes(nodes, nodeLookup, parentLookup, options) on the two lookups.
AdoptUserNodes ==
    /\ triggered < MaxAdopts
    /\ triggered' = triggered + 1
    /\ \E ns \in AdoptArrays, options \in AdoptOptions :
       \E adopted \in {adoptUserNodes(ns, nodeLookup, options)} :
        /\ nodeLookup' = adopted.nodeLookup
        /\ parentLookup' = adopted.parentLookup
        /\ lastOp' = [op |-> "adoptUserNodes", nodes |-> ns, options |-> options,
                      before |-> nodeLookup]
        /\ UNCHANGED <<nodes, nodeExtent, nodeOrigin, elevateNodesOnSelect, storeParams,
                       hasDefaultNodes, edges, edgeLookup, connectionLookup,
                       hasDefaultEdges, handlers, notified, viewVars, gesture, queueVars, pureVars>>

NextAdopt == AdoptUserNodes

SpecAdopt == InitAdopt /\ [][NextAdopt]_vars

(***************************************************************************)
(* Claims about adoptUserNodes                                             *)
(***************************************************************************)
Adopted == lastOp.op = "adoptUserNodes"

\* The refs of the internal node objects of a node lookup.
InternalRefs(nl) == {nl[i].value.ref : i \in DOMAIN nl}

\* The user node at position i of the adopted array wraps the same user object as
\* the internal node the lookup held before.
SameUserObject(i) ==
    /\ MapHas(lastOp.before, lastOp.nodes[i].id)
    /\ MapGet(lastOp.before, lastOp.nodes[i].id).internals.userNode.ref = lastOp.nodes[i].ref

\* C11: after adoptUserNodes with checkEquality enabled, a root node whose user
\* object is reference-identical to the one wrapped before keeps the identical
\* internal node, and so does such a child whose absolute position and z did not
\* change; such a child whose position or z changed is a new object; a node whose
\* user object is another reference or was absent is a freshly constructed
\* internal node; with checkEquality disabled every internal node is fresh.
C11_ReferenceStability ==
    Adopted =>
        \A i \in DOMAIN lastOp.nodes :
            LET userNode == lastOp.nodes[i]
                cur == MapGet(nodeLookup, userNode.id)
                new == /\ cur.ref \notin InternalRefs(lastOp.before)
                       /\ cur.internals.userNode = userNode
            IN  IF FieldOr(lastOp.options, "checkEquality", TRUE) /\ SameUserObject(i)
                THEN LET old == MapGet(lastOp.before, userNode.id)
                     IN  IF ~Has(userNode, "parentId")
                         THEN cur = old
                         ELSE IF /\ cur.internals.positionAbsolute
                                        = old.internals.positionAbsolute
                                 /\ cur.internals.z = old.internals.z
                              THEN cur = old
                              ELSE new
                ELSE new

\* An adoption that keeps a reused root and replaces a reused child whose position
\* or z changed.
C11_Witness ==
    /\ Adopted
    /\ FieldOr(lastOp.options, "checkEquality", TRUE)
    /\ \E i, j \in DOMAIN lastOp.nodes :
          /\ SameUserObject(i) /\ ~Has(lastOp.nodes[i], "parentId")
          /\ MapGet(nodeLookup, lastOp.nodes[i].id) = MapGet(lastOp.before, lastOp.nodes[i].id)
          /\ SameUserObject(j) /\ Has(lastOp.nodes[j], "parentId")
          /\ MapGet(nodeLookup, lastOp.nodes[j].id).ref
                \notin InternalRefs(lastOp.before)

\* The node at position i of the adopted array has extent 'parent', and its parent
\* precedes it and is at least as large in both dimensions.
BoundByParent(i) ==
    LET node == lastOp.nodes[i]
    IN  /\ isParentExtent(node) /\ Has(node, "parentId")
        /\ PosOf(lastOp.nodes, node.parentId) \in 1..(i - 1)
        /\ LET d == getNodeDimensions(node)
               pd == getNodeDimensions(lastOp.nodes[PosOf(lastOp.nodes, node.parentId)])
           IN  pd.width >= d.width /\ pd.height >= d.height

\* The absolute rectangle of a node of the lookup.
AbsoluteRect(id) ==
    LET node == MapGet(nodeLookup, id)
        d == getNodeDimensions(node)
    IN  [x |-> node.internals.positionAbsolute.x, y |-> node.internals.positionAbsolute.y,
         x2 |-> node.internals.positionAbsolute.x + d.width,
         y2 |-> node.internals.positionAbsolute.y + d.height]

\* C12: after adoptUserNodes, every node with extent 'parent' whose parent precedes
\* it in the array and is at least as large as the node has its absolute
\* rectangle inside the parent's absolute rectangle, whatever its position, its
\* origin and the global nodeExtent.
C12_ParentClamp ==
    Adopted =>
        \A i \in DOMAIN lastOp.nodes :
            BoundByParent(i) =>
                LET c == AbsoluteRect(lastOp.nodes[i].id)
                    p == AbsoluteRect(lastOp.nodes[i].parentId)
                IN  /\ p.x <= c.x /\ c.x2 <= p.x2
                    /\ p.y <= c.y /\ c.y2 <= p.y2

\* A child placed right of its parent by the user was pulled back so that its
\* right edge lies on the parent's right edge, under a global nodeExtent.
C12_Witness ==
    /\ Adopted
    /\ Has(lastOp.options, "nodeExtent")
    /\ \E i \in DOMAIN lastOp.nodes :
          /\ BoundByParent(i)
          /\ lastOp.nodes[i].position.x
                - FieldOr(lastOp.nodes[i], "origin", <<0, 0>>)[1] * 4 > 10
          /\ AbsoluteRect(lastOp.nodes[i].id).x2 = AbsoluteRect(lastOp.nodes[i].parentId).x2

\* The node at position i of the adopted array names a parent that is not in the
\* lookup when the node is adopted: absent from the array, or placed later in it.
Orphan(i) ==
    /\ Has(lastOp.nodes[i], "parentId")
    /\ PosOf(lastOp.nodes, lastOp.nodes[i].parentId) \notin 1..(i - 1)

AdoptExtent == FieldOr(lastOp.options, "nodeExtent", InfiniteExtent)

\* The absolute position a node has when no parent offsets it.
Unshifted(node) ==
    DerivedAbsolute(Without(node, "parentId"), nodeLookup, AdoptExtent, <<0, 0>>)

NoParentEntry(id) ==
    \A k \in DOMAIN parentLookup : ~MapHas(parentLookup[k].value, id)

\* The nodes that are not orphans are adopted as usual: each is in nodeLookup and
\* wraps its user node, a child is registered under its parent and holds the
\* position derived from its parent's, a freshly built root the position derived
\* from its own.
OthersAdopted ==
    /\ MapKeys(nodeLookup) = [i \in DOMAIN lastOp.nodes |-> lastOp.nodes[i].id]
    /\ \A j \in DOMAIN lastOp.nodes :
          LET userNode == lastOp.nodes[j]
              cur == MapGet(nodeLookup, userNode.id)
          IN  ~Orphan(j) =>
                /\ cur.internals.userNode = userNode
                /\ IF Has(userNode, "parentId")
                   THEN /\ MapHas(parentLookup, userNode.parentId)
                        /\ MapHas(MapGet(parentLookup, userNode.parentId), userNode.id)
                        /\ cur.internals.positionAbsolute
                              = DerivedAbsolute(cur, nodeLookup, AdoptExtent, <<0, 0>>)
                   ELSE cur.ref \notin InternalRefs(lastOp.before) =>
                            cur.internals.positionAbsolute = Unshifted(cur)

\* C14 as stated: when adoptUserNodes meets a node whose parent is not yet in the
\* lookup, the child stays in nodeLookup with an absolute position that no parent
\* offsets, gets no parentLookup entry, and the other nodes are adopted normally.
C14_OrphanUnshifted ==
    Adopted =>
        /\ OthersAdopted
        /\ \A i \in DOMAIN lastOp.nodes :
              Orphan(i) =>
                /\ MapHas(nodeLookup, lastOp.nodes[i].id)
                /\ NoParentEntry(lastOp.nodes[i].id)
                /\ MapGet(nodeLookup, lastOp.nodes[i].id).internals.positionAbsolute
                      = Unshifted(MapGet(nodeLookup, lastOp.nodes[i].id))

\* C14: when adoptUserNodes meets a node whose parent is not yet in the lookup, the
\* child stays in nodeLookup and gets no parentLookup entry, and the other nodes
\* are adopted normally; a freshly built child holds an absolute position that no
\* parent offsets, while a child reused under checkEquality is the identical
\* internal node it was before, with the absolute position it had then.
C14_OrphanSkipped ==
    Adopted =>
        /\ OthersAdopted
        /\ \A i \in DOMAIN lastOp.nodes :
              Orphan(i) =>
                /\ MapHas(nodeLookup, lastOp.nodes[i].id)
                /\ NoParentEntry(lastOp.nodes[i].id)
                /\ LET cur == MapGet(nodeLookup, lastOp.nodes[i].id)
                   IN  IF FieldOr(lastOp.options, "checkEquality", TRUE) /\ SameUserObject(i)
                       THEN cur = MapGet(lastOp.before, lastOp.nodes[i].id)
                       ELSE /\ cur.ref \notin InternalRefs(lastOp.before)
                            /\ cur.internals.positionAbsolute = Unshifted(cur)

\* An adoption with a child placed before its parent that was reused under
\* checkEquality and still holds the position its former parent offset, next to a
\* parent that was adopted after it.
C14_Witness ==
    /\ Adopted
    /\ \E i \in DOMAIN lastOp.nodes :
          /\ Orphan(i)
          /\ PosOf(lastOp.nodes, lastOp.nodes[i].parentId) > i
          /\ SameUserObject(i)
          /\ MapGet(nodeLookup, lastOp.nodes[i].id).internals.positionAbsolute
                # Unshifted(MapGet(nodeLookup, lastOp.nodes[i].id))


(***************************************************************************)
(* Specification of the store under setNodes and measurement updates        *)
(***************************************************************************)
MaxMeasures == 2

NBs == [ref |-> 17, id |-> "b", parentId |-> "a", position |-> [x |-> 5, y |-> 5],
        width |-> 4, height |-> 4, selected |-> TRUE]
NAz == [ref |-> 18, id |-> "a", position |-> [x |-> 0, y |-> 0], width |-> 10, height |-> 10,
        zIndex |-> 5]
NBh == [ref |-> 19, id |-> "b", parentId |-> "a", position |-> [x |-> 5, y |-> 5],
        width |-> 4, height |-> 4, hidden |-> TRUE]
MeasurePoolRefs == NodePoolRefs \cup {NAs.ref, NBs.ref, NAz.ref, NBh.ref}

\* Roots and children that are selected or carry a zIndex, a hidden child, a child
\* that expands its parent, and a child that precedes its parent.
MeasureArrays ==
    {<<NA1, NBs>>, <<NAs, NB1>>, <<NAz, NBs, NC1>>, <<NAz, NBh>>, <<NA2, NB3>>, <<NBs, NA1>>}

MeasuredDimensions == {[width |-> 4, height |-> 4], [width |-> 12, height |-> 12]}

\* The Map of updates the resize observer hands over: one node, or a parent and
\* its child together.
UpdateMaps ==
    {<<[id |-> id, dimensions |-> d, force |-> f]>> :
        id \in {"a", "b", "c"}, d \in MeasuredDimensions, f \in BOOLEAN}
    \cup {<<[id |-> "a", dimensions |-> d, force |-> FALSE],
            [id |-> "b", dimensions |-> d, force |-> FALSE]>> : d \in MeasuredDimensions}

InitMeasure ==
    /\ \E managed \in BOOLEAN, elevate \in BOOLEAN :
          StoreIs([EmptyStore(<< >>, managed, {"onNodesChange", "onEdgesChange"})
                      EXCEPT !.elevateNodesOnSelect = elevate])
    /\ QueueIdle
    /\ PureIdle

SetMeasuredNodes ==
    \E ns \in MeasureArrays :
        /\ StoreBecomes(setNodes(Before, ns))
        /\ lastOp' = [op |-> "setNodes"]
        /\ UNCHANGED <<triggered, queueVars, pureVars>>

\* updateNodeInternals(updates), as the resize observer of the node renderer calls
\* it.
UpdateNodeInternals ==
    /\ triggered < MaxMeasures
    /\ triggered' = triggered + 1
    /\ \E updates \in UpdateMaps, hasViewport \in BOOLEAN :
        /\ StoreBecomes(updateNodeInternals(Before, updates, hasViewport, MeasurePoolRefs))
        /\ lastOp' = [op |-> "updateNodeInternals", updates |-> updates,
                      hasViewport |-> hasViewport, before |-> nodeLookup]
        /\ UNCHANGED <<queueVars, pureVars>>

NextMeasure == SetMeasuredNodes \/ UpdateNodeInternals

SpecMeasure == InitMeasure /\ [][NextMeasure]_vars

(***************************************************************************)
(* Claims about the stacking order                                         *)
(***************************************************************************)
\* E: what a selected node is elevated by under the store's elevateNodesOnSelect.
StoreElevation == IF elevateNodesOnSelect THEN ElevateZ ELSE 0

OwnZ(node) == FieldOr(node, "zIndex", 0) + (IF FieldOr(node, "selected", FALSE)
                                           THEN StoreElevation ELSE 0)

ParentPrecedes(node) ==
    /\ PosOf(nodes, node.parentId) > 0
    /\ PosOf(nodes, node.parentId) < PosOf(nodes, node.id)

\* C13: after any sequence of setNodes and updateNodeInternals, every root node
\* has internals.z = zIndex + (selected ? E : 0) and every node whose parent
\* precedes it in the node array has internals.z = max(parent's internals.z, own
\* zIndex + (selected ? E : 0)), with E = 1000 when the store's elevateNodesOnSelect
\* is set and 0 otherwise.
C13_StackingOrder ==
    \A i \in DOMAIN nodeLookup :
        LET node == nodeLookup[i].value
        IN  IF ~Has(node, "parentId") THEN node.internals.z = OwnZ(node)
            ELSE ParentPrecedes(node) =>
                    node.internals.z = Max(MapGet(nodeLookup, node.parentId).internals.z,
                                           OwnZ(node))


(***************************************************************************)
(* Specification of getSelectionChanges over a lookup of items              *)
(***************************************************************************)
SelectionIds == <<"a", "b", "c">>
SelectionStates == {"undefined", "true", "false"}

\* The lookup item with the given id and `selected` property.
SelectionItem(i, state) ==
    LET item == [ref |-> i, id |-> SelectionIds[i]]
    IN  IF state = "undefined" THEN item ELSE With(item, "selected", state = "true")

\* The lookups a call can meet: up to three items, each never selected, selected
\* or unselected.
SelectionLookups ==
    UNION {{[i \in 1..n |-> [key |-> SelectionIds[i], value |-> SelectionItem(i, f[i])]] :
                f \in [1..n -> SelectionStates]} : n \in 1..Len(SelectionIds)}

\* The target sets: ids of the lookup and an id no item has.
SelectionTargets == SUBSET {"a", "b", "c", "x"}

InitSelect ==
    /\ StoreIdle
    /\ QueueIdle
    /\ pc = "idle" /\ elements = << >> /\ items = << >> /\ changes = << >>
    /\ result = << >>
    /\ diffLookup \in SelectionLookups

\* A call getSelectionChanges(items, selectedIds, mutateItem) on the lookup.
GetSelectionChanges ==
    \E selectedIds \in SelectionTargets, mutateItem \in BOOLEAN :
      \E returned \in {getSelectionChanges(diffLookup, selectedIds, mutateItem)} :
        /\ diffLookup' = returned.items
        /\ result' = returned.changes
        /\ pc' = "getSelectionChanges"
        /\ lastOp' = [op |-> "getSelectionChanges", selectedIds |-> selectedIds,
                      mutateItem |-> mutateItem, before |-> diffLookup]
        /\ UNCHANGED <<nodes, nodeLookup, parentLookup, nodeExtent, nodeOrigin,
                       elevateNodesOnSelect, storeParams, hasDefaultNodes, edges, edgeLookup,
                       connectionLookup, hasDefaultEdges, handlers, notified, triggered,
                       viewVars, gesture, queueVars, elements, items, changes>>

NextSelect == GetSelectionChanges

SpecSelect == InitSelect /\ [][NextSelect]_vars

(***************************************************************************)
(* Claims about getSelectionChanges                                        *)
(***************************************************************************)
SelectionCalled == lastOp.op = "getSelectionChanges"

\* The item's `selected` differs from its membership in the target set, and it is
\* not a never-selected item that the target excludes.
MustChange(entry) ==
    LET member == entry.key \in lastOp.selectedIds
        differs == IF Has(entry.value, "selected") THEN entry.value.selected # member
                   ELSE TRUE
        firstTime == ~Has(entry.value, "selected") /\ ~member
    IN  differs /\ ~firstTime

\* C15: getSelectionChanges emits a `select` change for a lookup item exactly when
\* the item's `selected` differs from its membership in the target id set and it is
\* not the case that `selected` is undefined while the item is excluded; each
\* change carries selected = membership, and there is one change per such item.
C15_SelectionChanges ==
    SelectionCalled =>
        /\ \A i \in DOMAIN lastOp.before :
              Cardinality({k \in DOMAIN result : result[k].id = lastOp.before[i].key})
                  = IF MustChange(lastOp.before[i]) THEN 1 ELSE 0
        /\ \A k \in DOMAIN result :
              /\ result[k].type = "select"
              /\ MapHas(lastOp.before, result[k].id)
              /\ result[k].selected = (result[k].id \in lastOp.selectedIds)

\* A call that emits nothing for a never-selected item asked to stay unselected
\* and one change with selected = false for a selected item that is excluded.
C15_Witness ==
    /\ SelectionCalled
    /\ \E i, j \in DOMAIN lastOp.before :
          /\ ~Has(lastOp.before[i].value, "selected")
          /\ lastOp.before[i].key \notin lastOp.selectedIds
          /\ \A k \in DOMAIN result : result[k].id # lastOp.before[i].key
          /\ Has(lastOp.before[j].value, "selected") /\ lastOp.before[j].value.selected
          /\ lastOp.before[j].key \notin lastOp.selectedIds
          /\ \E k \in DOMAIN result :
                result[k] = [id |-> lastOp.before[j].key, type |-> "select", selected |-> FALSE]

\* C16: with mutateItem = true, on return every lookup item for which a change was
\* emitted has `selected` equal to its membership in the target set and the other
\* items are as they were, so a call that follows immediately with the same target
\* emits no change; with mutateItem = false no lookup item is modified.
C16_MutateItem ==
    SelectionCalled =>
        IF lastOp.mutateItem
        THEN /\ MapKeys(diffLookup) = MapKeys(lastOp.before)
             /\ \A i \in DOMAIN diffLookup :
                   IF \E k \in DOMAIN result : result[k].id = diffLookup[i].key
                   THEN /\ Has(diffLookup[i].value, "selected")
                        /\ diffLookup[i].value.selected
                              = (diffLookup[i].key \in lastOp.selectedIds)
                        /\ diffLookup[i].value.ref = lastOp.before[i].value.ref
                   ELSE diffLookup[i] = lastOp.before[i]
             /\ getSelectionChanges(diffLookup, lastOp.selectedIds, TRUE).changes = << >>
        ELSE diffLookup = lastOp.before

\* A mutating call that selected one item and unselected another.
C16_Witness ==
    /\ SelectionCalled
    /\ lastOp.mutateItem
    /\ \E i, j \in DOMAIN diffLookup :
          /\ diffLookup[i].value # lastOp.before[i].value
          /\ diffLookup[i].value.selected
          /\ diffLookup[j].value # lastOp.before[j].value
          /\ ~diffLookup[j].value.selected


(***************************************************************************)
(* Viewport: XYPanZoom (the zoom behaviour it drives), panBy, fitView and   *)
(* the store's extent setters.  A viewport state `v` is the record of the    *)
(* viewport variables.  A transform is [x, y, k].  Coordinates are multiples *)
(* of 4 in a 16 x 16 pane and zoom levels are 1 or 2, so every quotient the  *)
(* code forms is an integer.                                                *)
(***************************************************************************)
\* state.width x state.height, the size of the pane and the extent of the zoom
\* behaviour.
Pane == [width |-> 16, height |-> 16]

ViewState ==
    [panZoom |-> panZoom, transform |-> transform, minZoom |-> minZoom, maxZoom |-> maxZoom,
     translateExtent |-> translateExtent]

viewportToTransform(viewport) == [x |-> viewport.x, y |-> viewport.y, k |-> viewport.zoom]

\* One axis of the constraint of the zoom behaviour: low and high are the ends of
\* the viewport extent, t0 and t1 those of the translate extent.  k * dx0 and
\* k * dx1 stand for dx0 and dx1, which leaves the comparisons as they are.
constrainAxis(x, k, low, high, t0, t1) ==
    LET shifted(dx0, dx1) ==
            x + (IF dx1 > dx0 THEN (dx0 + dx1) \div 2
                 ELSE IF Min(0, dx0) # 0 THEN Min(0, dx0) ELSE Max(0, dx1))
    IN  shifted(low - x - k * t0, high - x - k * t1)

\* A variant of the constraint that returns the transform as it is.
constrainNothing(t, extent, te) == t

\* d3ZoomInstance.constrain()(transform, extent, translateExtent)
constrain(t, extent, te) ==
    IF te.infinite THEN t
    ELSE [x |-> constrainAxis(t.x, t.k, extent.x1, extent.x2, te.x1, te.x2),
          y |-> constrainAxis(t.y, t.k, extent.y1, extent.y2, te.y1, te.y2),
          k |-> t.k]

PaneExtent == CoordExtent(0, 0, Pane.width, Pane.height)

\* setViewportConstrained(viewport, extent, translateExtent): the transform it sets
\* and resolves to.
setViewportConstrained(v, viewport, extent, te) ==
    [v EXCEPT !.transform = constrain(viewportToTransform(viewport), extent, te)]

\* setViewport(viewport, options): d3ZoomInstance.transform(selection, nextTransform)
setViewport(v, viewport) == [v EXCEPT !.transform = viewportToTransform(viewport)]

\* syncViewport(viewport)
syncViewport(v, viewport) ==
    IF v.transform.k # viewport.zoom \/ v.transform.x # viewport.x
          \/ v.transform.y # viewport.y
    THEN [v EXCEPT !.transform = viewportToTransform(viewport)]
    ELSE v

\* d3ZoomInstance.scaleTo(selection, k), with k = num / den: the scale is pushed
\* into the scale extent, the centre of the pane keeps its place, and the result
\* is constrained to the translate extent of the zoom behaviour.
zoomScaleTo(v, num, den) ==
    LET t0 == v.transform
        k1 == IF num > v.maxZoom * den
              THEN Max(v.minZoom, v.maxZoom)
              ELSE IF num < v.minZoom * den THEN v.minZoom ELSE num \div den
        p0 == [x |-> Pane.width \div 2, y |-> Pane.height \div 2]
    IN  [v EXCEPT !.transform =
            constrain([x |-> p0.x - ((p0.x - t0.x) * k1) \div t0.k,
                       y |-> p0.y - ((p0.y - t0.y) * k1) \div t0.k,
                       k |-> k1],
                      PaneExtent, v.translateExtent)]

\* scaleTo(zoom, options)
scaleTo(v, zoom) == zoomScaleTo(v, zoom, 1)

\* scaleBy(factor, options), with factor = num / den
scaleBy(v, num, den) == zoomScaleTo(v, v.transform.k * num, den)

\* panBy({ delta, panZoom, transform, translateExtent, width, height }): the
\* viewport it leaves and the boolean it resolves to.
panBy(v, delta) ==
    LET answered(next) ==
            [view |-> next,
             resolved |-> (next.transform.x # v.transform.x \/ next.transform.y # v.transform.y
                              \/ next.transform.k # v.transform.k)]
    IN  IF ~v.panZoom \/ (delta.x = 0 /\ delta.y = 0)
        THEN [view |-> v, resolved |-> FALSE]
        ELSE answered(setViewportConstrained(
                          v, [x |-> v.transform.x + delta.x, y |-> v.transform.y + delta.y,
                              zoom |-> v.transform.k],
                          PaneExtent, v.translateExtent))

RECURSIVE Gcd(_, _)
Gcd(a, b) == IF b = 0 THEN a ELSE Gcd(b, a % b)

\* A number that need not be whole is the fraction num / den in lowest terms, with
\* den >= 0; den = 0 with num > 0 is Infinity, the quotient of a positive number
\* by 0.
Frac(num, den) ==
    LET lowest(divisor) == [num |-> num \div divisor, den |-> den \div divisor]
    IN  lowest(Gcd(Abs(num), den))

FracLess(a, b) == a.num * b.den < b.num * a.den

FracSame(a, b) == a.num * b.den = b.num * a.den

FracMin(a, b) == IF FracLess(b, a) THEN b ELSE a

FracMax(a, b) == IF FracLess(a, b) THEN b ELSE a

\* A fraction that is a whole number, as that number.
Whole(a) == a.num \div a.den

getViewportForBoundsByWidth(bounds, width, height, min, max, padding) ==
    LET xZoom == Frac(width * padding.den, bounds.width * (padding.den + padding.num))
        clampedZoom == FracMin(FracMax(xZoom, min), max)
    IN  [x |-> Frac(width * clampedZoom.den
                        - (2 * bounds.x + bounds.width) * clampedZoom.num, 2 * clampedZoom.den),
         y |-> Frac(height * clampedZoom.den
                        - (2 * bounds.y + bounds.height) * clampedZoom.num, 2 * clampedZoom.den),
         zoom |-> clampedZoom]

\* getViewportForBounds(bounds, width, height, minZoom, maxZoom, padding); minZoom,
\* maxZoom and padding are fractions, and so are x, y and zoom of the viewport
\* returned.  The centre of the bounds is (2 * bounds.x + bounds.width) / 2.
getViewportForBounds(bounds, width, height, min, max, padding) ==
    LET xZoom == Frac(width * padding.den, bounds.width * (padding.den + padding.num))
        yZoom == Frac(height * padding.den, bounds.height * (padding.den + padding.num))
        zoom == FracMin(xZoom, yZoom)
        clampedZoom == FracMin(FracMax(zoom, min), max)
    IN  [x |-> Frac(width * clampedZoom.den
                        - (2 * bounds.x + bounds.width) * clampedZoom.num, 2 * clampedZoom.den),
         y |-> Frac(height * clampedZoom.den
                        - (2 * bounds.y + bounds.height) * clampedZoom.num, 2 * clampedZoom.den),
         zoom |-> clampedZoom]

\* fitView of the store over fitView of the system: `bounds` is << >> when no node
\* is to be fitted, else <<getInternalNodesBounds(nodes)>>; padding is the default
\* 0.1.  The bounds fitted here give a whole zoom and whole translations.
fitView(v, bounds) ==
    LET fitted(viewport) == [x |-> Whole(viewport.x), y |-> Whole(viewport.y),
                             zoom |-> Whole(viewport.zoom)]
    IN  IF ~v.panZoom \/ bounds = << >> THEN [view |-> v, resolved |-> FALSE]
        ELSE [view |-> setViewport(v, fitted(getViewportForBounds(
                                          bounds[1], Pane.width, Pane.height,
                                          Frac(v.minZoom, 1), Frac(v.maxZoom, 1), Frac(1, 10)))),
              resolved |-> TRUE]

\* setMinZoom, setMaxZoom, setTranslateExtent of the store: the zoom behaviour
\* takes the new extent and keeps its current transform.
setMinZoom(v, min) == [v EXCEPT !.minZoom = min]

setMaxZoom(v, max) == [v EXCEPT !.maxZoom = max]

setTranslateExtent(v, te) == [v EXCEPT !.translateExtent = te]


(***************************************************************************)
(* Specification of the viewport operations                                 *)
(***************************************************************************)
MaxViewOps == 3

Viewports == {[x |-> x, y |-> y, zoom |-> z] : x \in {0 - 24, 0}, y \in {0, 8}, z \in {1, 2}}

\* No bound, a bound wider than the pane at both zoom levels, and a bound narrower
\* than the pane.
TranslateExtents == {InfiniteExtent, CoordExtent(0 - 16, 0 - 16, 32, 32), CoordExtent(0, 0, 8, 8)}

ZoomLevels == {1, 2}

PanDeltas == {[x |-> 0, y |-> 0], [x |-> 8, y |-> 0], [x |-> 0 - 8, y |-> 4],
              [x |-> 0, y |-> 0 - 24]}

\* Zoom in and zoom out by a factor of two, as num / den.
ScaleFactors == {<<2, 1>>, <<1, 2>>}

\* What getInternalNodesBounds yields for the nodes to fit: none, a small group,
\* the pane-sized group and a wide group.
FitBounds ==
    {<< >>, <<[x |-> 40, y |-> 40, width |-> 4, height |-> 4]>>,
     <<[x |-> 0, y |-> 0, width |-> 16, height |-> 16]>>,
     <<[x |-> 0 - 8, y |-> 0, width |-> 32, height |-> 8]>>}

\* A store without nodes; when the pan/zoom instance exists, XYPanZoom has set the
\* default viewport, constrained, on construction.
InitViewport ==
    /\ StoreHolds(EmptyStore(<< >>, FALSE, {}))
    /\ QueueIdle
    /\ PureIdle
    /\ PointerIdle
    /\ panZoom \in BOOLEAN
    /\ minZoom = 1 /\ maxZoom = 2
    /\ translateExtent \in TranslateExtents
    /\ transform = IF panZoom
                   THEN constrain(viewportToTransform([x |-> 0, y |-> 0,
                                                       zoom |-> clamp(1, minZoom, maxZoom)]),
                                  PaneExtent, translateExtent)
                   ELSE [x |-> 0, y |-> 0, k |-> 1]

\* The viewport variables take the viewport state v, the operation `op` has run
\* and resolved to `resolved`.
ViewBecomes(v, op, resolved) ==
    /\ triggered < MaxViewOps
    /\ triggered' = triggered + 1
    /\ panZoom' = v.panZoom
    /\ transform' = v.transform
    /\ minZoom' = v.minZoom
    /\ maxZoom' = v.maxZoom
    /\ translateExtent' = v.translateExtent
    /\ result' = resolved
    /\ lastOp' = With(op, "before", ViewState)
    /\ UNCHANGED <<nodes, nodeLookup, parentLookup, nodeExtent, nodeOrigin,
                   elevateNodesOnSelect, storeParams, hasDefaultNodes, edges, edgeLookup,
                   connectionLookup, hasDefaultEdges, handlers, notified, gesture, queueVars,
                   pc, elements, items, changes, diffLookup>>

SetViewport ==
    /\ panZoom
    /\ \E viewport \in Viewports :
          ViewBecomes(setViewport(ViewState, viewport),
                      [op |-> "setViewport", viewport |-> viewport], TRUE)

SetViewportConstrained ==
    /\ panZoom
    /\ \E viewport \in Viewports :
          ViewBecomes(setViewportConstrained(ViewState, viewport, PaneExtent, translateExtent),
                      [op |-> "setViewportConstrained", viewport |-> viewport], TRUE)

SyncViewport ==
    /\ panZoom
    /\ \E viewport \in Viewports :
          ViewBecomes(syncViewport(ViewState, viewport),
                      [op |-> "syncViewport", viewport |-> viewport], TRUE)

ScaleTo ==
    /\ panZoom
    /\ \E zoom \in ZoomLevels \cup {4} :
          ViewBecomes(scaleTo(ViewState, zoom), [op |-> "scaleTo", zoom |-> zoom], TRUE)

ScaleBy ==
    /\ panZoom
    /\ \E factor \in ScaleFactors :
          ViewBecomes(scaleBy(ViewState, factor[1], factor[2]),
                      [op |-> "scaleBy", factor |-> factor], TRUE)

PanBy ==
    \E delta \in PanDeltas :
      \E answer \in {panBy(ViewState, delta)} :
          ViewBecomes(answer.view, [op |-> "panBy", delta |-> delta], answer.resolved)

FitView ==
    \E bounds \in FitBounds :
      \E answer \in {fitView(ViewState, bounds)} :
          ViewBecomes(answer.view, [op |-> "fitView", bounds |-> bounds], answer.resolved)

SetMinZoom ==
    \E zoom \in ZoomLevels :
        ViewBecomes(setMinZoom(ViewState, zoom), [op |-> "setMinZoom", zoom |-> zoom], TRUE)

SetMaxZoom ==
    \E zoom \in ZoomLevels :
        ViewBecomes(setMaxZoom(ViewState, zoom), [op |-> "setMaxZoom", zoom |-> zoom], TRUE)

SetTranslateExtent ==
    \E extent \in TranslateExtents :
        ViewBecomes(setTranslateExtent(ViewState, extent),
                    [op |-> "setTranslateExtent", extent |-> extent], TRUE)

NextViewport ==
    \/ SetViewport
    \/ SetViewportConstrained
    \/ SyncViewport
    \/ ScaleTo
    \/ ScaleBy
    \/ PanBy
    \/ FitView
    \/ SetMinZoom
    \/ SetMaxZoom
    \/ SetTranslateExtent

SpecViewport == InitViewport /\ [][NextViewport]_vars

(***************************************************************************)
(* Claims about the viewport                                               *)
(***************************************************************************)
\* The ends of the translations that keep the pane inside the translate extent
\* on one axis at scale k: size is the pane's, t0 and t1 are the extent's ends.
LowestTranslation(k, size, t1) == size - k * t1
HighestTranslation(k, t0) == 0 - k * t0

\* A translation lies within the translate extent on one axis: the pane shows
\* nothing outside the extent, or, when the extent is narrower than the pane, the
\* extent is centred in the pane.
AxisWithin(x, k, size, t0, t1) ==
    IF LowestTranslation(k, size, t1) <= HighestTranslation(k, t0)
    THEN LowestTranslation(k, size, t1) <= x /\ x <= HighestTranslation(k, t0)
    ELSE 2 * x = LowestTranslation(k, size, t1) + HighestTranslation(k, t0)

TranslationWithin(t, te) ==
    te.infinite \/ /\ AxisWithin(t.x, t.k, Pane.width, te.x1, te.x2)
                   /\ AxisWithin(t.y, t.k, Pane.height, te.y1, te.y2)

\* C17: after any sequence of viewport operations (setViewport,
\* setViewportConstrained, panBy, scaleTo, scaleBy, fitView, syncViewport)
\* interleaved with extent changes (setMinZoom, setMaxZoom, setTranslateExtent), the
\* current viewport's zoom lies in [minZoom, maxZoom] and its translation lies
\* within translateExtent.
C17_ViewportInvariant ==
    panZoom =>
        /\ minZoom <= transform.k /\ transform.k <= maxZoom
        /\ TranslationWithin(transform, translateExtent)

\* The part of C17 that the code keeps: a transform set by setViewportConstrained
\* or panBy lies within the translate extent, and one set by scaleTo or scaleBy
\* lies within it and within a scale extent that is not empty.
C17_ConstrainedOperations ==
    /\ (lastOp.op = "setViewportConstrained" \/ (lastOp.op = "panBy" /\ result)) =>
          TranslationWithin(transform, translateExtent)
    /\ lastOp.op \in {"scaleTo", "scaleBy"} =>
          /\ TranslationWithin(transform, translateExtent)
          /\ minZoom <= maxZoom => (minZoom <= transform.k /\ transform.k <= maxZoom)

\* The translation panBy asks for on one axis, pushed into the translate extent.
PannedInto(x, k, size, t0, t1) ==
    IF LowestTranslation(k, size, t1) > HighestTranslation(k, t0)
    THEN (LowestTranslation(k, size, t1) + HighestTranslation(k, t0)) \div 2
    ELSE IF x < LowestTranslation(k, size, t1) THEN LowestTranslation(k, size, t1)
    ELSE IF x > HighestTranslation(k, t0) THEN HighestTranslation(k, t0)
    ELSE x

\* C18: panBy resolves to false and leaves the viewport alone when the delta is
\* zero on both axes or no pan/zoom instance exists; otherwise the transform
\* becomes the prior one translated by the delta, zoom unchanged, pushed into
\* translateExtent, and panBy resolves to true exactly when that transform differs
\* from the prior one.
C18_PanBy ==
    lastOp.op = "panBy" =>
        LET prior == lastOp.before.transform
            te == lastOp.before.translateExtent
            delta == lastOp.delta
        IN  /\ ViewState = [lastOp.before EXCEPT !.transform = transform]
            /\ IF ~lastOp.before.panZoom \/ (delta.x = 0 /\ delta.y = 0)
               THEN result = FALSE /\ transform = prior
               ELSE /\ transform.k = prior.k
                    /\ transform.x = IF te.infinite THEN prior.x + delta.x
                                     ELSE PannedInto(prior.x + delta.x, prior.k, Pane.width,
                                                     te.x1, te.x2)
                    /\ transform.y = IF te.infinite THEN prior.y + delta.y
                                     ELSE PannedInto(prior.y + delta.y, prior.k, Pane.height,
                                                     te.y1, te.y2)
                    /\ result = (transform # prior)

\* A pan at the edge of the translate extent that was absorbed whole: panBy
\* resolved to false for a delta that is not zero.
C18_Witness ==
    /\ lastOp.op = "panBy"
    /\ lastOp.before.panZoom
    /\ lastOp.delta.x # 0
    /\ ~lastOp.before.translateExtent.infinite
    /\ result = FALSE
    /\ transform = lastOp.before.transform


(***************************************************************************)
(* xyresizer/utils.ts: getControlDirection, getDimensionsAfterResize.  A     *)
(* control position is the set of the words its name is made of, a ratio is  *)
(* a fraction [num, den], an absent extent is << >>.                         *)
(***************************************************************************)
getControlDirection(controlPosition) ==
    [isHorizontal |-> "right" \in controlPosition \/ "left" \in controlPosition,
     isVertical |-> "bottom" \in controlPosition \/ "top" \in controlPosition,
     affectsX |-> "left" \in controlPosition,
     affectsY |-> "top" \in controlPosition]

\* No lower limit.
getLowerExtentClampNone(lowerExtent, lowerBound) == 0

getLowerExtentClamp(lowerExtent, lowerBound) == Max(0, lowerBound - lowerExtent)

\* No upper limit.
getUpperExtentClampNone(upperExtent, upperBound) == 0

getUpperExtentClamp(upperExtent, upperBound) == Max(0, upperExtent - upperBound)

\* No size limit.
getSizeClampNone(size, minSize, maxSize) == 0

getSizeClamp(size, minSize, maxSize) == Max(0, Max(minSize - size, size - maxSize))

xor(a, b) == IF a THEN ~b ELSE b

\* value * aspectRatio and value / aspectRatio
TimesRatio(value, ratio) == (value * ratio.num) \div ratio.den
OverRatio(value, ratio) == (value * ratio.den) \div ratio.num

\* A variant of the last step of getDimensionsAfterResize that leaves the distance
\* of the other axis as the pointer gave it.
keepAspectNever(distX, distY, direction, newWidth, newHeight, aspectRatio) ==
    [distX |-> distX, distY |-> distY, affectsX |-> direction.affectsX,
     affectsY |-> direction.affectsY]

\* if (keepAspectRatio) { ... }: the distances and the affected sides after the
\* distance of one axis was derived from the other.
keepAspect(distX, distY, direction, newWidth, newHeight, aspectRatio) ==
    IF direction.isHorizontal /\ direction.isVertical
    THEN IF newWidth * aspectRatio.den > newHeight * aspectRatio.num
         THEN [distX |-> distX,
               distY |-> OverRatio(IF xor(direction.affectsX, direction.affectsY)
                                   THEN 0 - distX ELSE distX, aspectRatio),
               affectsX |-> direction.affectsX, affectsY |-> direction.affectsY]
         ELSE [distX |-> TimesRatio(IF xor(direction.affectsX, direction.affectsY)
                                    THEN 0 - distY ELSE distY, aspectRatio),
               distY |-> distY,
               affectsX |-> direction.affectsX, affectsY |-> direction.affectsY]
    ELSE IF direction.isHorizontal
         THEN [distX |-> distX, distY |-> OverRatio(distX, aspectRatio),
               affectsX |-> direction.affectsX, affectsY |-> direction.affectsX]
         ELSE [distX |-> TimesRatio(distY, aspectRatio), distY |-> distY,
               affectsX |-> direction.affectsY, affectsY |-> direction.affectsY]

\* getDimensionsAfterResize(startValues, controlDirection, pointerPosition,
\* boundaries, keepAspectRatio, nodeOrigin, extent, childExtent)
getDimensionsAfterResize(startValues, direction, pointerPosition, boundaries, keepAspectRatio, origin0, extent, childExtent) ==
    LET affectsX == direction.affectsX
        affectsY == direction.affectsY
        isDiagonal == direction.isHorizontal /\ direction.isVertical
        ratio == startValues.aspectRatio
        distX == IF direction.isHorizontal
                 THEN pointerPosition.xSnapped - startValues.pointerX ELSE 0
        distY == IF direction.isVertical
                 THEN pointerPosition.ySnapped - startValues.pointerY ELSE 0
        newWidth == startValues.width + (IF affectsX THEN 0 - distX ELSE distX)
        newHeight == startValues.height + (IF affectsY THEN 0 - distY ELSE distY)
        originOffsetX == 0 - origin0[1] * startValues.width
        originOffsetY == 0 - origin0[2] * startValues.height
        towardsEnd == (~affectsX /\ ~affectsY)
        \* the extent
        xExtentClamp ==
            IF extent = << >> THEN 0
            ELSE IF affectsX /\ distX < 0
                 THEN getLowerExtentClamp(startValues.x + distX + originOffsetX, extent[1].x1)
                 ELSE IF ~affectsX /\ distX > 0
                      THEN getUpperExtentClamp(startValues.x + newWidth + originOffsetX,
                                               extent[1].x2)
                      ELSE 0
        yExtentClamp ==
            IF extent = << >> THEN 0
            ELSE IF affectsY /\ distY < 0
                 THEN getLowerExtentClamp(startValues.y + distY + originOffsetY, extent[1].y1)
                 ELSE IF ~affectsY /\ distY > 0
                      THEN getUpperExtentClamp(startValues.y + newHeight + originOffsetY,
                                               extent[1].y2)
                      ELSE 0
        \* the child extent
        xChildClamp ==
            IF childExtent = << >> THEN 0
            ELSE IF affectsX /\ distX > 0
                 THEN getUpperExtentClamp(startValues.x + distX, childExtent[1].x1)
                 ELSE IF ~affectsX /\ distX < 0
                      THEN getLowerExtentClamp(startValues.x + newWidth, childExtent[1].x2)
                      ELSE 0
        yChildClamp ==
            IF childExtent = << >> THEN 0
            ELSE IF affectsY /\ distY > 0
                 THEN getUpperExtentClamp(startValues.y + distY, childExtent[1].y1)
                 ELSE IF ~affectsY /\ distY < 0
                      THEN getLowerExtentClamp(startValues.y + newHeight, childExtent[1].y2)
                      ELSE 0
        \* the other side under keepAspectRatio, horizontal resize
        aspectHeightClamp ==
            TimesRatio(getSizeClamp(OverRatio(newWidth, ratio), boundaries.minHeight,
                                    boundaries.maxHeight), ratio)
        xAspectExtentClamp ==
            IF extent = << >> THEN 0
            ELSE IF towardsEnd \/ (affectsX /\ ~affectsY /\ isDiagonal)
                 THEN TimesRatio(getUpperExtentClamp(startValues.y + originOffsetY
                                                        + OverRatio(newWidth, ratio),
                                                     extent[1].y2), ratio)
                 ELSE TimesRatio(getLowerExtentClamp(
                                     startValues.y + originOffsetY
                                        + OverRatio(IF affectsX THEN distX ELSE 0 - distX, ratio),
                                     extent[1].y1), ratio)
        xAspectChildClamp ==
            IF childExtent = << >> THEN 0
            ELSE IF towardsEnd \/ (affectsX /\ ~affectsY /\ isDiagonal)
                 THEN TimesRatio(getLowerExtentClamp(startValues.y + OverRatio(newWidth, ratio),
                                                     childExtent[1].y2), ratio)
                 ELSE TimesRatio(getUpperExtentClamp(
                                     startValues.y
                                        + OverRatio(IF affectsX THEN distX ELSE 0 - distX, ratio),
                                     childExtent[1].y1), ratio)
        \* the other side under keepAspectRatio, vertical resize
        aspectWidthClamp ==
            OverRatio(getSizeClamp(TimesRatio(newHeight, ratio), boundaries.minWidth,
                                   boundaries.maxWidth), ratio)
        yAspectExtentClamp ==
            IF extent = << >> THEN 0
            ELSE IF towardsEnd \/ (affectsY /\ ~affectsX /\ isDiagonal)
                 THEN OverRatio(getUpperExtentClamp(startValues.x + TimesRatio(newHeight, ratio)
                                                        + originOffsetX,
                                                    extent[1].x2), ratio)
                 ELSE OverRatio(getLowerExtentClamp(
                                    startValues.x
                                       + TimesRatio(IF affectsY THEN distY ELSE 0 - distY, ratio)
                                       + originOffsetX,
                                    extent[1].x1), ratio)
        yAspectChildClamp ==
            IF childExtent = << >> THEN 0
            ELSE IF towardsEnd \/ (affectsY /\ ~affectsX /\ isDiagonal)
                 THEN OverRatio(getLowerExtentClamp(startValues.x + TimesRatio(newHeight, ratio),
                                                    childExtent[1].x2), ratio)
                 ELSE OverRatio(getUpperExtentClamp(
                                    startValues.x
                                       + TimesRatio(IF affectsY THEN distY ELSE 0 - distY, ratio),
                                    childExtent[1].x1), ratio)
        clampX ==
            Max(Max(getSizeClamp(newWidth, boundaries.minWidth, boundaries.maxWidth),
                    Max(xExtentClamp, xChildClamp)),
                IF keepAspectRatio /\ direction.isHorizontal
                THEN Max(aspectHeightClamp, Max(xAspectExtentClamp, xAspectChildClamp))
                ELSE 0)
        clampY ==
            Max(Max(getSizeClamp(newHeight, boundaries.minHeight, boundaries.maxHeight),
                    Max(yExtentClamp, yChildClamp)),
                IF keepAspectRatio /\ direction.isVertical
                THEN Max(aspectWidthClamp, Max(yAspectExtentClamp, yAspectChildClamp))
                ELSE 0)
        clamped(dist, by) == dist + (IF dist < 0 THEN by ELSE 0 - by)
        returned(d) ==
            [width |-> startValues.width + (IF d.affectsX THEN 0 - d.distX ELSE d.distX),
             height |-> startValues.height + (IF d.affectsY THEN 0 - d.distY ELSE d.distY),
             x |-> origin0[1] * d.distX * (IF ~d.affectsX THEN 1 ELSE 0 - 1)
                      + (IF d.affectsX THEN startValues.x + d.distX ELSE startValues.x),
             y |-> origin0[2] * d.distY * (IF ~d.affectsY THEN 1 ELSE 0 - 1)
                      + (IF d.affectsY THEN startValues.y + d.distY ELSE startValues.y)]
        finished(dx, dy) ==
            returned(IF keepAspectRatio
                     THEN keepAspect(dx, dy, direction, newWidth, newHeight, ratio)
                     ELSE [distX |-> dx, distY |-> dy, affectsX |-> affectsX,
                           affectsY |-> affectsY])
    IN  finished(clamped(distX, clampX), clamped(distY, clampY))


(***************************************************************************)
(* Specification of a resize gesture: XYResizer captures the start values    *)
(* when the drag starts and calls getDimensionsAfterResize on every move     *)
(***************************************************************************)
ControlPositions ==
    {{"top"}, {"bottom"}, {"left"}, {"right"},
     {"top", "left"}, {"top", "right"}, {"bottom", "left"}, {"bottom", "right"}}

StartSizes == {<<200, 100>>, <<100, 100>>, <<100, 200>>}

\* The resized node: its top left corner is at (50, 50) in its parent, whatever
\* the node origin.
ResizedNode(size, origin) ==
    [id |-> "n", position |-> [x |-> 50 + origin[1] * size[1], y |-> 50 + origin[2] * size[2]],
     measured |-> [width |-> size[1], height |-> size[2]]]

\* Its parent, and a child whose top left corner is at (20, 20) in the node.
ResizeParent == [id |-> "p", measured |-> [width |-> 280, height |-> 280]]

ResizeChild(origin) ==
    [id |-> "k", position |-> [x |-> 20 + origin[1] * 40, y |-> 20 + origin[2] * 40],
     measured |-> [width |-> 40, height |-> 40]]

nodeToParentExtent(node) == CoordExtent(0, 0, node.measured.width, node.measured.height)

nodeToChildExtent(child, parent, origin) ==
    CoordExtent(parent.position.x + child.position.x - origin[1] * child.measured.width,
                parent.position.y + child.position.y - origin[2] * child.measured.height,
                parent.position.x + child.position.x + child.measured.width
                    - origin[1] * child.measured.width,
                parent.position.y + child.position.y + child.measured.height
                    - origin[2] * child.measured.height)

\* The start values XYResizer builds from the node when the pointer goes down at
\* (0, 0).
StartValuesOf(node) ==
    [width |-> node.measured.width, height |-> node.measured.height,
     x |-> node.position.x, y |-> node.position.y, pointerX |-> 0, pointerY |-> 0,
     aspectRatio |-> [num |-> node.measured.width, den |-> node.measured.height]]

\* Limits no size of the gesture reaches, limits that stop a growing node, and
\* limits that also stop a shrinking one.
ResizeBoundaries ==
    {[minWidth |-> 10, maxWidth |-> 10000, minHeight |-> 10, maxHeight |-> 10000],
     [minWidth |-> 10, maxWidth |-> 240, minHeight |-> 10, maxHeight |-> 240],
     [minWidth |-> 80, maxWidth |-> 240, minHeight |-> 80, maxHeight |-> 240]}

\* What the start handler captures: the node has extent 'parent' or not, and a
\* child with extent 'parent' or none.
ResizeGestures ==
    {[startValues |-> StartValuesOf(ResizedNode(size, o)), controlPosition |-> c,
      boundaries |-> b, keepAspectRatio |-> k, nodeOrigin |-> o,
      extent |-> IF e THEN <<nodeToParentExtent(ResizeParent)>> ELSE << >>,
      childExtent |-> IF ce THEN <<nodeToChildExtent(ResizeChild(o), ResizedNode(size, o), o)>>
                      ELSE << >>] :
        size \in StartSizes, c \in ControlPositions, b \in ResizeBoundaries,
        k \in BOOLEAN, o \in {<<0, 0>>, <<1, 1>>}, e \in BOOLEAN, ce \in BOOLEAN}

PointerPositions == {[xSnapped |-> x, ySnapped |-> y] : x, y \in {0 - 60, 0, 50}}

InitResize ==
    /\ StoreHolds(EmptyStore(<< >>, FALSE, {}))
    /\ ViewIdle
    /\ QueueIdle
    /\ PureIdle
    /\ gesture \in ResizeGestures

\* A pointer move of the resize gesture.
Resize ==
    \E pointerPosition \in PointerPositions :
        /\ result' = getDimensionsAfterResize(
                         gesture.startValues, getControlDirection(gesture.controlPosition),
                         pointerPosition, gesture.boundaries, gesture.keepAspectRatio,
                         gesture.nodeOrigin, gesture.extent, gesture.childExtent)
        /\ lastOp' = [op |-> "resize", pointerPosition |-> pointerPosition]
        /\ UNCHANGED <<nodes, nodeLookup, parentLookup, nodeExtent, nodeOrigin,
                       elevateNodesOnSelect, storeParams, hasDefaultNodes, edges, edgeLookup,
                       connectionLookup, hasDefaultEdges, handlers, notified, triggered,
                       viewVars, gesture, queueVars, pc, elements, items, changes, diffLookup>>

NextResize == Resize

SpecResize == InitResize /\ [][NextResize]_vars

(***************************************************************************)
(* Claims about the resize                                                 *)
(***************************************************************************)
Resized == lastOp.op = "resize"

\* No minimum or maximum size, parent extent or child extent is given that a size
\* of the gesture could reach.
Unconstrained ==
    /\ gesture.boundaries.maxWidth = 10000
    /\ gesture.extent = << >>
    /\ gesture.childExtent = << >>

AspectKept ==
    result.width * gesture.startValues.height = result.height * gesture.startValues.width

\* The gesture of the example: a 200 x 100 node, the bottom-right handle, the
\* pointer moved by (50, 0).
ExampleResize ==
    /\ gesture.startValues.width = 200 /\ gesture.startValues.height = 100
    /\ gesture.controlPosition = {"bottom", "right"}
    /\ lastOp.pointerPosition = [xSnapped |-> 50, ySnapped |-> 0]

\* C19: with keepAspectRatio and no binding minimum, maximum, parent or child
\* constraint, getDimensionsAfterResize returns for each of the eight handles and
\* every pointer delta a width and a height with width = height * (start width /
\* start height); a 200 x 100 node dragged by (50, 0) at the bottom-right handle
\* becomes 250 x 125.
C19_AspectRatio ==
    (Resized /\ gesture.keepAspectRatio /\ Unconstrained) =>
        /\ AspectKept
        /\ ExampleResize => (result.width = 250 /\ result.height = 125)

\* The example of C19 was resized, and it kept its top-left corner.
C19_Witness ==
    /\ Resized /\ gesture.keepAspectRatio /\ Unconstrained
    /\ ExampleResize
    /\ result.width = 250 /\ result.height = 125
    /\ gesture.nodeOrigin = <<0, 0>> /\ result.x = 50 /\ result.y = 50

(***************************************************************************)
(* types/utils.ts: the auto pan                                            *)
(*                                                                         *)
(* A velocity and a movement are the fraction num / den, den > 0: the code *)
(* divides by the margin, and the quotient is kept as it is.               *)
(***************************************************************************)
AutoPanDistance == 40

calcAutoPanVelocityUnclamped(value, min, max) ==
    IF value < min THEN [num |-> Abs(value - min), den |-> min]
    ELSE IF value > max THEN [num |-> 0 - Abs(value - max), den |-> min]
    ELSE [num |-> 0, den |-> 1]

calcAutoPanVelocity(value, min, max) ==
    IF value < min THEN [num |-> clamp(Abs(value - min), 1, min), den |-> min]
    ELSE IF value > max THEN [num |-> 0 - clamp(Abs(value - max), 1, min), den |-> min]
    ELSE [num |-> 0, den |-> 1]

calcAutoPan(pos, bounds, speed, distance) ==
    LET times(velocity) == [num |-> velocity.num * speed, den |-> velocity.den]
    IN  << times(calcAutoPanVelocity(pos.x, distance, bounds.width - distance)),
           times(calcAutoPanVelocity(pos.y, distance, bounds.height - distance)) >>

(***************************************************************************)
(* The auto pan of a drag: a container and a speed, and pointer positions  *)
(* inside and outside the container.  A container of 60 is narrower than   *)
(* two margins, one of 80 is exactly two margins wide.                     *)
(***************************************************************************)
ContainerSizes == {500, 80, 60}

AutoPanSpeeds == {15, 30}

AutoPanGestures ==
    {[containerBounds |-> [width |-> w, height |-> h], autoPanSpeed |-> speed] :
        w, h \in ContainerSizes, speed \in AutoPanSpeeds}

PointerCoordinates == {0 - 10, 0, 20, 30, 39, 40, 41, 100, 459, 460, 461, 480, 500, 520}

MousePositions == {[x |-> x, y |-> y] : x, y \in PointerCoordinates}

InitAutoPan ==
    /\ StoreHolds(EmptyStore(<< >>, FALSE, {}))
    /\ ViewIdle
    /\ QueueIdle
    /\ PureIdle
    /\ gesture \in AutoPanGestures

\* A frame of the auto pan with the pointer at mousePosition.
AutoPan ==
    \E mousePosition \in MousePositions :
        /\ result' = calcAutoPan(mousePosition, gesture.containerBounds,
                                 gesture.autoPanSpeed, AutoPanDistance)
        /\ lastOp' = [op |-> "autoPan", mousePosition |-> mousePosition]
        /\ UNCHANGED <<nodes, nodeLookup, parentLookup, nodeExtent, nodeOrigin,
                       elevateNodesOnSelect, storeParams, hasDefaultNodes, edges, edgeLookup,
                       connectionLookup, hasDefaultEdges, handlers, notified, triggered,
                       viewVars, gesture, queueVars, pc, elements, items, changes, diffLookup>>

NextAutoPan == AutoPan

SpecAutoPan == InitAutoPan /\ [][NextAutoPan]_vars

(***************************************************************************)
(* Claims about the auto pan                                               *)
(***************************************************************************)
AutoPanned == lastOp.op = "autoPan"

\* The pointer coordinate, the container size and the movement on an axis
\* (1 = x, 2 = y).
Coordinate(axis) == IF axis = 1 THEN lastOp.mousePosition.x ELSE lastOp.mousePosition.y

ContainerSize(axis) ==
    IF axis = 1 THEN gesture.containerBounds.width ELSE gesture.containerBounds.height

Movement(axis) == result[axis]

BelowMargin(value) == value < AutoPanDistance

AboveMargin(value, size) == value > size - AutoPanDistance

\* How far a coordinate lies beyond the margin that decides its direction.
BeyondMargin(value, size) ==
    IF BelowMargin(value) THEN AutoPanDistance - value
    ELSE IF AboveMargin(value, size) THEN value - (size - AutoPanDistance)
    ELSE 0

\* The magnitude of the movement at a coordinate, times the margin.
MagnitudeAt(value, size) ==
    LET of(velocity) == (Abs(velocity.num) * gesture.autoPanSpeed * AutoPanDistance)
                            \div velocity.den
    IN  of(calcAutoPanVelocity(value, AutoPanDistance, size - AutoPanDistance))

\* The movement is 0 exactly in the dead zone, its magnitude is at most the
\* speed, it is no smaller at a coordinate further beyond the same margin, and
\* greater there while the distance beyond the margin is at most the margin.
ZeroAndMagnitude(axis) ==
    LET value == Coordinate(axis)
        size == ContainerSize(axis)
    IN  /\ Movement(axis).num = 0
            <=> (AutoPanDistance <= value /\ value <= size - AutoPanDistance)
        /\ Movement(axis).den > 0
        /\ Abs(Movement(axis).num) <= gesture.autoPanSpeed * Movement(axis).den
        /\ Abs(Movement(axis).num) * AutoPanDistance = MagnitudeAt(value, size) * Movement(axis).den
        /\ \A other \in PointerCoordinates :
              (/\ BelowMargin(other) = BelowMargin(value)
               /\ BeyondMargin(value, size) > 0
               /\ BeyondMargin(other, size) > BeyondMargin(value, size)) =>
                  /\ MagnitudeAt(other, size) >= MagnitudeAt(value, size)
                  /\ BeyondMargin(other, size) <= AutoPanDistance =>
                         MagnitudeAt(other, size) > MagnitudeAt(value, size)

ExampleAutoPan ==
    /\ gesture.containerBounds = [width |-> 500, height |-> 500]
    /\ lastOp.mousePosition = [x |-> 100, y |-> 100]

ExampleStill == ExampleAutoPan => (result[1].num = 0 /\ result[2].num = 0)

\* C20 as stated: calcAutoPan returns 0 on an axis exactly when the coordinate
\* lies within [distance, size - distance], a positive movement when it is below
\* distance and a negative one when it is above size - distance, of a magnitude
\* that grows with the distance beyond the margin and is at most speed; (100, 100)
\* in a container of 500 x 500 gives [0, 0].
C20_AutoPanSigns ==
    AutoPanned =>
        /\ \A axis \in {1, 2} :
              /\ ZeroAndMagnitude(axis)
              /\ BelowMargin(Coordinate(axis)) => Movement(axis).num > 0
              /\ AboveMargin(Coordinate(axis), ContainerSize(axis)) => Movement(axis).num < 0
        /\ ExampleStill

\* C20, amended: the movement is negative when the coordinate is above
\* size - distance and not below distance; in a container narrower than two
\* margins a coordinate can be both, and the movement is then positive.
C20_AutoPan ==
    AutoPanned =>
        /\ \A axis \in {1, 2} :
              /\ ZeroAndMagnitude(axis)
              /\ BelowMargin(Coordinate(axis)) => Movement(axis).num > 0
              /\ (/\ AboveMargin(Coordinate(axis), ContainerSize(axis))
                  /\ ~BelowMargin(Coordinate(axis))) => Movement(axis).num < 0
        /\ ExampleStill

\* A pointer at x = 30 in a container 60 wide is below the left margin and above
\* the right one, and the movement on x is 10 / 40 of the speed to the right; at
\* y = 480 in a height of 500 the movement is 20 / 40 of the speed upwards.
C20_Witness ==
    /\ AutoPanned
    /\ gesture.containerBounds = [width |-> 60, height |-> 500]
    /\ gesture.autoPanSpeed = 15
    /\ lastOp.mousePosition = [x |-> 30, y |-> 480]
    /\ result = << [num |-> 150, den |-> 40], [num |-> 0 - 300, den |-> 40] >>

(***************************************************************************)
(* Specification of getViewportForBounds: bounds narrower and wider than   *)
(* the view, flat bounds, zoom ranges with a lower end of 0.5, and         *)
(* paddings of 0, 0.1 and 0.5                                              *)
(***************************************************************************)
FitViews == {[width |-> 1200, height |-> 800], [width |-> 800, height |-> 1200],
             [width |-> 100, height |-> 100]}

FitZoomRanges == {<<Frac(1, 2), Frac(2, 1)>>, <<Frac(1, 2), Frac(10, 1)>>,
                  <<Frac(1, 1), Frac(4, 1)>>}

FitPaddings == {Frac(0, 1), Frac(1, 10), Frac(1, 2)}

FitRects ==
    {[x |-> x, y |-> y, width |-> w, height |-> h] :
        x \in {0 - 50, 0, 30}, y \in {0, 30}, w \in {0, 100, 300, 2400, 5000},
        h \in {0, 100, 800, 3000}}

\* The store holds the zoom range; its lower end need not be whole.
InitFit ==
    /\ StoreHolds(EmptyStore(<< >>, FALSE, {}))
    /\ panZoom = FALSE
    /\ transform = [x |-> 0, y |-> 0, k |-> 1]
    /\ \E range \in FitZoomRanges : minZoom = range[1] /\ maxZoom = range[2]
    /\ translateExtent = InfiniteExtent
    /\ PointerIdle
    /\ QueueIdle
    /\ PureIdle

GetViewportForBounds ==
    \E bounds \in FitRects, view \in FitViews, padding \in FitPaddings :
        /\ result' = getViewportForBounds(bounds, view.width, view.height,
                                          minZoom, maxZoom, padding)
        /\ lastOp' = [op |-> "getViewportForBounds", bounds |-> bounds, width |-> view.width,
                      height |-> view.height, padding |-> padding]
        /\ UNCHANGED <<nodes, nodeLookup, parentLookup, nodeExtent, nodeOrigin,
                       elevateNodesOnSelect, storeParams, hasDefaultNodes, edges, edgeLookup,
                       connectionLookup, hasDefaultEdges, handlers, notified, triggered,
                       viewVars, gesture, queueVars, pc, elements, items, changes, diffLookup>>

NextFit == GetViewportForBounds

SpecFit == InitFit /\ [][NextFit]_vars

(***************************************************************************)
(* Claims about getViewportForBounds                                       *)
(***************************************************************************)
Fitted == lastOp.op = "getViewportForBounds"

\* size / (extent x (1 + padding)) is below, or above, the zoom z.
QuotientBelow(size, extent, z) ==
    size * lastOp.padding.den * z.den < z.num * extent * (lastOp.padding.den + lastOp.padding.num)

QuotientAbove(size, extent, z) ==
    size * lastOp.padding.den * z.den > z.num * extent * (lastOp.padding.den + lastOp.padding.num)

\* z is the smaller of the two quotients of the view by the padded bounds.
SmallerQuotient(z) ==
    /\ ~QuotientBelow(lastOp.width, lastOp.bounds.width, z)
    /\ ~QuotientBelow(lastOp.height, lastOp.bounds.height, z)
    /\ \/ ~QuotientAbove(lastOp.width, lastOp.bounds.width, z)
       \/ ~QuotientAbove(lastOp.height, lastOp.bounds.height, z)

\* Some quotient is below z; both quotients are above z.
SomeQuotientBelow(z) ==
    \/ QuotientBelow(lastOp.width, lastOp.bounds.width, z)
    \/ QuotientBelow(lastOp.height, lastOp.bounds.height, z)

BothQuotientsAbove(z) ==
    /\ QuotientAbove(lastOp.width, lastOp.bounds.width, z)
    /\ QuotientAbove(lastOp.height, lastOp.bounds.height, z)

\* The zoom returned is the smaller quotient clamped into [minZoom, maxZoom].
ZoomClamped ==
    /\ result.zoom.den > 0
    /\ ~FracLess(result.zoom, minZoom) /\ ~FracLess(maxZoom, result.zoom)
    /\ \/ SmallerQuotient(result.zoom)
       \/ FracSame(result.zoom, minZoom) /\ SomeQuotientBelow(minZoom)
       \/ FracSame(result.zoom, maxZoom) /\ BothQuotientsAbove(maxZoom)

\* centre * zoom + translation = half of the view, on one axis.
CentreMapped(start, extent, size, translation) ==
    /\ translation.den > 0
    /\ (2 * start + extent) * result.zoom.num * translation.den
           + 2 * translation.num * result.zoom.den
       = size * result.zoom.den * translation.den

ExampleFit ==
    /\ lastOp.bounds = [x |-> 0, y |-> 0, width |-> 100, height |-> 100]
    /\ lastOp.width = 1200 /\ lastOp.height = 800
    /\ minZoom = Frac(1, 2) /\ maxZoom = Frac(2, 1)
    /\ lastOp.padding = Frac(0, 1)

\* C21: getViewportForBounds returns the zoom min(width / (bounds.width x (1 +
\* padding)), height / (bounds.height x (1 + padding))) clamped into [minZoom,
\* maxZoom], and x, y that map the centre of the bounds to the centre of the view
\* at that zoom; bounds 100 x 100 at (0, 0) in a view of 1200 x 800 with zoom range
\* [0.5, 2] and no padding give zoom 2, x = 500 and y = 300.
C21_ViewportForBounds ==
    Fitted =>
        /\ ZoomClamped
        /\ CentreMapped(lastOp.bounds.x, lastOp.bounds.width, lastOp.width, result.x)
        /\ CentreMapped(lastOp.bounds.y, lastOp.bounds.height, lastOp.height, result.y)
        /\ ExampleFit => /\ FracSame(result.zoom, Frac(2, 1))
                         /\ FracSame(result.x, Frac(500, 1))
                         /\ FracSame(result.y, Frac(300, 1))

\* The example of C21 was computed: the quotient 8 was clamped to 2.
C21_Witness ==
    /\ Fitted /\ ExampleFit
    /\ BothQuotientsAbove(Frac(7, 1))
    /\ result.zoom = Frac(2, 1)
    /\ Whole(result.x) = 500 /\ Whole(result.y) = 300

(***************************************************************************)
(* xydrag/XYDrag.ts: the drag of nodes                                     *)
(*                                                                         *)
(* `d` is the closure of an XYDrag instance (lastPos, dragItems,           *)
(* autoPanStarted, mousePosition, containerBounds, dragStarted, abortDrag), *)
(* with what update() was called with (nodeId: << >> or <<id>>), the store *)
(* items its handlers read that the store record does not hold             *)
(* (nodeDragThreshold, autoPanOnNodeDrag, autoPanSpeed), and the browser:  *)
(*   pointer   "down" between the start and the end event of d3-drag       *)
(*   frame     the animation frame request named by autoPanId is pending   *)
(*   strays    pending requests of autoPan that autoPanId no longer names  *)
(*   awaiting  the autoPan calls suspended at `await panBy(...)`, each with *)
(*             the boolean its promise resolves to                         *)
(*   downAt    the pointer position of the start event                     *)
(*   passed    a move of this gesture lay farther than the threshold from  *)
(*             downAt                                                      *)
(* A handler runs on a world w: the closure, the store, the viewport, and  *)
(* what the handler has done so far: the updateNodePositions calls         *)
(* (writes), the callbacks fired and the panBy requests.                   *)
(* The instance is selectable, selectNodesOnDrag is on and no              *)
(* onNodeMouseDown is given, so startDrag changes no selection; nodes are  *)
(* draggable, snapToGrid is off, and onDragStart, onDrag and onDragStop    *)
(* are given.  An event carries the position getPointerPosition reads from *)
(* it (x, y), the one getEventPosition reads (mouse) and its touches.      *)
(***************************************************************************)
NullPosition == << >>

NewDrag(nodeId, nodeDragThreshold, autoPanOnNodeDrag, autoPanSpeed) ==
    [lastPos |-> NullPosition, dragItems |-> << >>, autoPanStarted |-> FALSE,
     mousePosition |-> [x |-> 0, y |-> 0], containerBounds |-> << >>,
     dragStarted |-> FALSE, abortDrag |-> FALSE,
     nodeId |-> nodeId, nodeDragThreshold |-> nodeDragThreshold,
     autoPanOnNodeDrag |-> autoPanOnNodeDrag, autoPanSpeed |-> autoPanSpeed,
     pointer |-> "up", frame |-> FALSE, strays |-> 0, awaiting |-> << >>,
     downAt |-> NullPosition, passed |-> FALSE]

World(d, st, v) ==
    [drag |-> d, store |-> st, view |-> v, writes |-> << >>, callbacks |-> << >>, pans |-> << >>]

RECURSIVE isParentSelected(_, _)
isParentSelected(node, nl) ==
    IF ~Has(node, "parentId") THEN FALSE
    ELSE IF ~MapHas(nl, node.parentId) THEN FALSE
    ELSE IF FieldOr(MapGet(nl, node.parentId), "selected", FALSE) THEN TRUE
    ELSE isParentSelected(MapGet(nl, node.parentId), nl)

\* The drag item getDragItems builds of an internal node.
dragItemOf(node, mousePos) ==
    LET optional(item, field) == IF Has(node, field) THEN With(item, field, node[field]) ELSE item
    IN  optional(optional(optional(optional(
            [id |-> node.id,
             position |-> node.position,
             distance |-> [x |-> mousePos.x - node.internals.positionAbsolute.x,
                           y |-> mousePos.y - node.internals.positionAbsolute.y],
             internals |-> [positionAbsolute |-> node.internals.positionAbsolute],
             measured |-> [width |-> FieldOr(node.measured, "width", 0),
                           height |-> FieldOr(node.measured, "height", 0)]],
            "extent"), "parentId"), "origin"), "expandParent")

RECURSIVE dragItemsFrom(_, _, _, _, _)
dragItemsFrom(i, nl, nodesDraggable, mousePos, nodeId) ==
    IF i > Len(nl) THEN << >>
    ELSE LET node == nl[i].value
             dragged == /\ (FieldOr(node, "selected", FALSE) \/ <<node.id>> = nodeId)
                        /\ (~Has(node, "parentId") \/ ~isParentSelected(node, nl))
                        /\ FieldOr(node, "draggable", nodesDraggable)
         IN  (IF dragged THEN <<[key |-> node.id, value |-> dragItemOf(node, mousePos)]>>
              ELSE << >>)
                 \o dragItemsFrom(i + 1, nl, nodesDraggable, mousePos, nodeId)

getDragItems(nl, nodesDraggable, mousePos, nodeId) ==
    dragItemsFrom(1, nl, nodesDraggable, mousePos, nodeId)

\* rectToBox(getInternalNodesBounds(dragItems)) of a non-empty Map of drag items.
RECURSIVE boundsOfItems(_, _)
boundsOfItems(dragItems, rect) ==
    IF dragItems = << >> THEN rect
    ELSE boundsOfItems(Tail(dragItems), getBoundsOfRects(rect, nodeToRect(Head(dragItems).value)))

nodesBoxOf(dragItems) ==
    LET box(rect) == [x |-> rect.x, y |-> rect.y, x2 |-> rect.x + rect.width,
                      y2 |-> rect.y + rect.height]
    IN  IF Len(dragItems) > 1
        THEN box(boundsOfItems(Tail(dragItems), nodeToRect(Head(dragItems).value)))
        ELSE [x |-> 0, y |-> 0, x2 |-> 0, y2 |-> 0]

\* Every drag item clamped into the node extent itself.
selectionNodeExtent(dragItem, nodesBox, extent0, multi) == extent0

\* The extent a drag item of a selection is clamped into: the node extent moved
\* by the place of the item in the box of the selection.
adjustedNodeExtent(dragItem, nodesBox, extent0, multi) ==
    IF multi /\ ~Has(dragItem, "extent") /\ ~extent0.infinite
    THEN CoordExtent(
             dragItem.internals.positionAbsolute.x - nodesBox.x + extent0.x1,
             dragItem.internals.positionAbsolute.y - nodesBox.y + extent0.y1,
             dragItem.internals.positionAbsolute.x + dragItem.measured.width - nodesBox.x2
                 + extent0.x2,
             dragItem.internals.positionAbsolute.y + dragItem.measured.height - nodesBox.y2
                 + extent0.y2)
    ELSE extent0

\* The loop of updateNodes over the drag items.
RECURSIVE movedDragItems(_, _, _, _, _, _, _, _)
movedDragItems(dragItems, pos, nl, origin0, extent0, nodesBox, multi, acc) ==
    IF dragItems = << >> THEN acc
    ELSE LET id == Head(dragItems).key
             dragItem == Head(dragItems).value
             moved(next) ==
                 [items |-> Append(acc.items,
                                   [key |-> id,
                                    value |-> [dragItem EXCEPT
                                                  !.position = next.position,
                                                  !.internals =
                                                      [positionAbsolute |-> next.positionAbsolute]]]),
                  hasChange |-> acc.hasChange \/ dragItem.position.x # next.position.x
                                    \/ dragItem.position.y # next.position.y]
         IN  movedDragItems(
                 Tail(dragItems), pos, nl, origin0, extent0, nodesBox, multi,
                 IF ~MapHas(nl, id) THEN [acc EXCEPT !.items = Append(@, Head(dragItems))]
                 ELSE moved(calculateNodePosition(
                                id, [x |-> pos.x - dragItem.distance.x,
                                     y |-> pos.y - dragItem.distance.y],
                                nl, origin0,
                                adjustedNodeExtent(dragItem, nodesBox, extent0, multi))))

\* What an updateNodePositions call carries: dragging, and the position of each
\* drag item.
WriteOf(dragItems, dragging) ==
    [dragging |-> dragging,
     positions |-> [i \in DOMAIN dragItems |->
                       [id |-> dragItems[i].key, position |-> dragItems[i].value.position]]]

updateNodesAlways(w, pos, dragEvent, live) ==
    LET looped(moved) ==
            [w EXCEPT !.drag = [@ EXCEPT !.lastPos = pos, !.dragItems = moved.items],
                      !.store = updateNodePositions(w.store, moved.items, TRUE, live),
                      !.writes = Append(@, WriteOf(moved.items, TRUE)),
                      !.callbacks = IF dragEvent THEN Append(@, "drag") ELSE @]
    IN  looped(movedDragItems(w.drag.dragItems, pos, w.store.nodeLookup, w.store.nodeOrigin,
                              w.store.nodeExtent, nodesBoxOf(w.drag.dragItems),
                              Len(w.drag.dragItems) > 1, [items |-> << >>, hasChange |-> FALSE]))

\* updateNodes({ x, y }, dragEvent); dragEvent is FALSE for null.
updateNodes(w, pos, dragEvent, live) ==
    LET looped(moved) ==
            IF ~moved.hasChange
            THEN [w EXCEPT !.drag = [@ EXCEPT !.lastPos = pos, !.dragItems = moved.items]]
            ELSE [w EXCEPT !.drag = [@ EXCEPT !.lastPos = pos, !.dragItems = moved.items],
                           !.store = updateNodePositions(w.store, moved.items, TRUE, live),
                           !.writes = Append(@, WriteOf(moved.items, TRUE)),
                           !.callbacks = IF dragEvent THEN Append(@, "drag") ELSE @]
    IN  looped(movedDragItems(w.drag.dragItems, pos, w.store.nodeLookup, w.store.nodeOrigin,
                              w.store.nodeExtent, nodesBoxOf(w.drag.dragItems),
                              Len(w.drag.dragItems) > 1, [items |-> << >>, hasChange |-> FALSE]))

\* cancelAnimationFrame(autoPanId) and requestAnimationFrame(autoPan)
cancelAnimationFrame(d) == [d EXCEPT !.frame = FALSE]

requestAnimationFrame(d) ==
    [d EXCEPT !.frame = TRUE, !.strays = IF d.frame THEN @ + 1 ELSE @]

\* autoPan() up to `await panBy(...)`, or to its end when it does not pan.  The
\* store's panBy sets the transform before its promise is settled.
autoPan(w) ==
    LET d == w.drag
        whole(movement) ==
            [x |-> Whole(Frac(movement[1].num, movement[1].den)),
             y |-> Whole(Frac(movement[2].num, movement[2].den))]
        requested(delta, panned) ==
            [w EXCEPT !.drag = [d EXCEPT !.lastPos =
                                             [x |-> d.lastPos.x - delta.x \div w.view.transform.k,
                                              y |-> d.lastPos.y - delta.y \div w.view.transform.k],
                                         !.awaiting = Append(@, panned.resolved)],
                      !.view = panned.view,
                      !.pans = Append(@, delta)]
        stepped(delta) ==
            IF delta.x # 0 \/ delta.y # 0 THEN requested(delta, panBy(w.view, delta))
            ELSE [w EXCEPT !.drag = requestAnimationFrame(d)]
    IN  IF d.containerBounds = << >> THEN w
        ELSE IF ~d.autoPanOnNodeDrag
        THEN [w EXCEPT !.drag = cancelAnimationFrame([d EXCEPT !.autoPanStarted = FALSE])]
        ELSE stepped(whole(calcAutoPan(d.mousePosition, d.containerBounds, d.autoPanSpeed,
                                       AutoPanDistance)))

\* autoPan() from the settling of the promise of panBy to its end.
autoPanResumed(w, live) ==
    LET resumed(w1) == [w1 EXCEPT !.drag = requestAnimationFrame(w1.drag)]
        settled(w1) == IF Head(w.drag.awaiting) THEN updateNodes(w1, w1.drag.lastPos, FALSE, live)
                       ELSE w1
    IN  resumed(settled([w EXCEPT !.drag.awaiting = Tail(@)]))

startDrag(w, pointerPos) ==
    LET started(dragged) ==
            [w EXCEPT !.drag = [@ EXCEPT !.dragStarted = TRUE, !.lastPos = pointerPos,
                                         !.dragItems = dragged],
                      !.callbacks = IF dragged # << >> THEN Append(@, "dragStart") ELSE @]
    IN  started(getDragItems(w.store.nodeLookup, TRUE, pointerPos, w.drag.nodeId))

\* The handler of the start event of d3-drag.
onStart(w, event) ==
    LET pointerPos == [x |-> event.x, y |-> event.y]
        armed(w1) == [w1 EXCEPT !.drag.lastPos = pointerPos, !.drag.mousePosition = event.mouse]
        reset == [w EXCEPT !.drag.containerBounds = event.containerBounds,
                           !.drag.abortDrag = FALSE]
    IN  armed(IF w.drag.nodeDragThreshold = 0 THEN startDrag(reset, pointerPos) ELSE reset)

\* The handler of the drag event of d3-drag.
onDrag(w, event, live) ==
    LET pointerPos == [x |-> event.x, y |-> event.y]
        abort == \/ event.touches > 1
                 \/ w.drag.nodeId # << >> /\ ~MapHas(w.store.nodeLookup, w.drag.nodeId[1])
        moved(w1) ==
            IF (w1.drag.lastPos.x # pointerPos.x \/ w1.drag.lastPos.y # pointerPos.y)
               /\ w1.drag.dragStarted
            THEN updateNodes([w1 EXCEPT !.drag.mousePosition = event.mouse], pointerPos, TRUE,
                             live)
            ELSE w1
        distanceSquared(x, y) == x * x + y * y
        armed(w1) ==
            IF ~w1.drag.dragStarted
               /\ distanceSquared(pointerPos.x - w1.drag.lastPos.x,
                                  pointerPos.y - w1.drag.lastPos.y)
                      > w1.drag.nodeDragThreshold * w1.drag.nodeDragThreshold
            THEN startDrag(w1, pointerPos)
            ELSE w1
        panning(w1) ==
            IF ~w1.drag.autoPanStarted /\ w1.drag.autoPanOnNodeDrag /\ w1.drag.dragStarted
            THEN autoPan([w1 EXCEPT !.drag.autoPanStarted = TRUE])
            ELSE w1
    IN  IF abort \/ w.drag.abortDrag THEN [w EXCEPT !.drag.abortDrag = TRUE]
        ELSE moved(armed(panning(w)))

\* The handler of the end event of d3-drag.
onEnd(w, live) ==
    LET stopped == [w EXCEPT !.drag = cancelAnimationFrame(
                                          [@ EXCEPT !.autoPanStarted = FALSE,
                                                    !.dragStarted = FALSE])]
    IN  IF ~w.drag.dragStarted \/ w.drag.abortDrag THEN w
        ELSE IF w.drag.dragItems = << >> THEN stopped
        ELSE [stopped EXCEPT
                 !.store = updateNodePositions(w.store, w.drag.dragItems, FALSE, live),
                 !.writes = Append(@, WriteOf(w.drag.dragItems, FALSE)),
                 !.callbacks = Append(@, "dragStop")]

(***************************************************************************)
(* Specification of the node drag: an instance on node "a" or on the       *)
(* selection, over a store that applies the changes itself.  "b" is        *)
(* selected, so a drag of "a" drags both.  The pointer goes down, moves    *)
(* (with one touch or two) and goes up; animation frames fire, suspended   *)
(* autoPan calls resume, the consumer removes a node, and auto pan is      *)
(* switched off.                                                           *)
(***************************************************************************)
MaxDragEvents == 7

DA == [ref |-> 21, id |-> "a", position |-> [x |-> 10, y |-> 10],
       measured |-> [width |-> 10, height |-> 10]]
DB == [ref |-> 22, id |-> "b", position |-> [x |-> 30, y |-> 10],
       measured |-> [width |-> 10, height |-> 10], selected |-> TRUE]
DragPoolRefs == {DA.ref, DB.ref}

DragContainer == [width |-> 200, height |-> 200]

\* Pointer positions: on node "a", one unit beside it, and farther away with the
\* mouse in the left margin of the container.
DragPoints ==
    {[x |-> 12, y |-> 12, mouse |-> [x |-> 100, y |-> 100]],
     [x |-> 13, y |-> 12, mouse |-> [x |-> 100, y |-> 100]],
     [x |-> 20, y |-> 16, mouse |-> [x |-> 30, y |-> 100]]}

DragThresholds == {0, 2}

DragStore(params) == setNodes(EmptyStore(params, TRUE, {}), <<DA, DB>>)

DragView == [panZoom |-> TRUE, transform |-> [x |-> 0, y |-> 0, k |-> 1], minZoom |-> 1,
             maxZoom |-> 2, translateExtent |-> InfiniteExtent]

InitDrag ==
    /\ StoreHolds(DragStore(<< >>))
    /\ panZoom = TRUE
    /\ transform = [x |-> 0, y |-> 0, k |-> 1]
    /\ minZoom = 1 /\ maxZoom = 2
    /\ translateExtent = InfiniteExtent
    /\ \E nodeId \in {<<"a">>, << >>}, threshold \in DragThresholds, autoPanOnNodeDrag \in BOOLEAN :
          gesture = NewDrag(nodeId, threshold, autoPanOnNodeDrag, AutoPanDistance)
    /\ QueueIdle
    /\ PureIdle

\* The state variables take the world a handler leaves; lastOp holds what the
\* handler did and the closure before it.
DragBecomes(w, op) ==
    /\ triggered < MaxDragEvents
    /\ triggered' = triggered + 1
    /\ nodes' = w.store.nodes
    /\ nodeLookup' = w.store.nodeLookup
    /\ parentLookup' = w.store.parentLookup
    /\ transform' = w.view.transform
    /\ gesture' = w.drag
    /\ notified' = w.store.notified
    /\ lastOp' = [op |-> op.op, event |-> op.event, writes |-> w.writes,
                  callbacks |-> w.callbacks, pans |-> w.pans, before |-> gesture]
    /\ UNCHANGED <<nodeExtent, nodeOrigin, elevateNodesOnSelect, storeParams, hasDefaultNodes,
                   edges, edgeLookup, connectionLookup, hasDefaultEdges, handlers,
                   panZoom, minZoom, maxZoom, translateExtent, queueVars, pureVars>>

Now == World(gesture, Before, ViewState)

\* Beyond(d, event): the event lies farther than the threshold from the pointer
\* position of the start event.
Beyond(d, event) ==
    (event.x - d.downAt.x) * (event.x - d.downAt.x)
        + (event.y - d.downAt.y) * (event.y - d.downAt.y)
    > d.nodeDragThreshold * d.nodeDragThreshold

PointerDown ==
    /\ triggered < MaxDragEvents
    /\ gesture.pointer = "up"
    /\ \E point \in DragPoints :
          LET event == [x |-> point.x, y |-> point.y, mouse |-> point.mouse, touches |-> 1,
                        containerBounds |-> DragContainer]
              down(w) == [w EXCEPT !.drag.pointer = "down",
                                   !.drag.downAt = [x |-> event.x, y |-> event.y],
                                   !.drag.passed = (w.drag.nodeDragThreshold = 0)]
          IN  DragBecomes(down(onStart(Now, event)), [op |-> "start", event |-> event])

PointerMove ==
    /\ triggered < MaxDragEvents
    /\ gesture.pointer = "down"
    /\ \E point \in DragPoints, touches \in {1, 2} :
          LET event == [x |-> point.x, y |-> point.y, mouse |-> point.mouse,
                        touches |-> touches]
              seen(w) == [w EXCEPT !.drag.passed = @ \/ Beyond(gesture, event)]
          IN  DragBecomes(seen(onDrag(Now, event, DragPoolRefs)), [op |-> "drag", event |-> event])

PointerUp ==
    /\ triggered < MaxDragEvents
    /\ gesture.pointer = "down"
    /\ LET up(w) == [w EXCEPT !.drag.pointer = "up"]
       IN  DragBecomes(up(onEnd(Now, DragPoolRefs)), [op |-> "end", event |-> << >>])

\* A pending animation frame request of autoPan fires: the one autoPanId names,
\* or a stray one.
AnimationFrame ==
    /\ triggered < MaxDragEvents
    /\ \/ /\ gesture.frame
          /\ DragBecomes(autoPan([Now EXCEPT !.drag.frame = FALSE]), [op |-> "frame", event |-> << >>])
       \/ /\ gesture.strays > 0
          /\ DragBecomes(autoPan([Now EXCEPT !.drag.strays = @ - 1]), [op |-> "frame", event |-> << >>])

\* The promise of the oldest suspended panBy settles.
AutoPanResume ==
    /\ triggered < MaxDragEvents
    /\ gesture.awaiting # << >>
    /\ DragBecomes(autoPanResumed(Now, DragPoolRefs), [op |-> "resume", event |-> << >>])

\* The consumer removes a node.
RemoveNode ==
    /\ triggered < MaxDragEvents
    /\ \E i \in DOMAIN nodes :
          LET kept == SelectSeq(nodes, LAMBDA n : n.id # nodes[i].id)
          IN  DragBecomes([Now EXCEPT !.store = setNodes(Before, kept)], [op |-> "removeNode", event |-> << >>])

\* The consumer switches autoPanOnNodeDrag off.
DisableAutoPan ==
    /\ triggered < MaxDragEvents
    /\ gesture.autoPanOnNodeDrag
    /\ DragBecomes([Now EXCEPT !.drag.autoPanOnNodeDrag = FALSE], [op |-> "disableAutoPan", event |-> << >>])

NextDrag ==
    \/ PointerDown \/ PointerMove \/ PointerUp \/ AnimationFrame \/ AutoPanResume
    \/ RemoveNode \/ DisableAutoPan

SpecDrag == InitDrag /\ [][NextDrag]_vars

(***************************************************************************)
(* Claims about the node drag                                              *)
(***************************************************************************)
\* The last step was a step of the drag (a handler of d3-drag, or autoPan after a
\* frame or after its panBy settled), and what it did.
DragStep(ops) == lastOp.op \in ops

Quiet == lastOp.writes = << >> /\ lastOp.pans = << >> /\ lastOp.callbacks = << >>

NoWrite == lastOp.writes = << >>

\* The gesture in progress had been aborted when the last step ran, or the step
\* was the move event that aborted it.
AbortedStep ==
    /\ DragStep({"drag", "end", "frame", "resume"})
    /\ lastOp.before.pointer = "down"
    /\ lastOp.before.abortDrag \/ (lastOp.op = "drag" /\ gesture.abortDrag)

\* C22: once a drag gesture is aborted (by a move event with several touches, or
\* because the dragged node left the lookup), no later step of that gesture writes
\* node positions, requests a pan or fires a callback: no move event, not the
\* pointer-up and no step of an auto pan loop started earlier; and the step leaves
\* the positions written before the abort as they are.
C22_DragAbort ==
    [][AbortedStep' => (Quiet' /\ nodeLookup' = nodeLookup /\ nodes' = nodes)]_vars

\* C23: every gesture ends with the drag not started, also an aborted one; so in a
\* gesture with a positive threshold no step writes a position or fires a callback
\* before a move lay farther than the threshold from the pointer-down position
\* (the drag items are snapshotted only then).
C23_EndsIdle ==
    /\ gesture.pointer = "up" => ~gesture.dragStarted
    /\ (/\ DragStep({"start", "drag", "frame", "resume"})
        /\ gesture.pointer = "down"
        /\ gesture.nodeDragThreshold > 0
        /\ ~gesture.passed) => (NoWrite /\ lastOp.callbacks = << >>)

\* C24: after the pointer-up, or once auto pan is disabled, the auto pan loop is
\* stopped: with the pointer up no animation frame request is pending and no step
\* of autoPan pans or writes, and a step that finds auto pan disabled does
\* nothing.
C24_AutoPanCancellation ==
    /\ gesture.pointer = "up" => (~gesture.frame /\ gesture.strays = 0)
    /\ (DragStep({"frame", "resume"}) /\ lastOp.before.pointer = "up") => Quiet
    /\ (DragStep({"frame"}) /\ ~gesture.autoPanOnNodeDrag) => (Quiet /\ ~gesture.frame)

\* C25: the pointer-up of a gesture that was dragging, was not aborted and holds a
\* drag item writes the items' last positions once with dragging = false and then
\* fires the drag-stop callbacks once; no write follows it while the pointer is
\* up; the pointer-up of a gesture that never moved beyond its threshold writes
\* nothing and fires no callback.
C25_PointerUp ==
    /\ (/\ DragStep({"end"})
        /\ lastOp.before.dragStarted /\ ~lastOp.before.abortDrag
        /\ lastOp.before.dragItems # << >>) =>
           /\ lastOp.writes = <<WriteOf(lastOp.before.dragItems, FALSE)>>
           /\ lastOp.callbacks = <<"dragStop">>
    /\ (/\ DragStep({"frame", "resume"})
        /\ lastOp.before.pointer = "up" /\ ~lastOp.before.abortDrag) => NoWrite
    /\ (DragStep({"end"}) /\ ~lastOp.before.passed) => (NoWrite /\ lastOp.callbacks = << >>)

\* The drag items getDragItems takes at the pointer position of the last event.
SnapshotAtEvent ==
    getDragItems(nodeLookup, TRUE, [x |-> lastOp.event.x, y |-> lastOp.event.y], gesture.nodeId)

\* C26: with nodeDragThreshold = 0 the pointer-down starts the drag and snapshots
\* the drag items; with a positive threshold nothing is started, written or
\* called back until a move lies farther than the threshold from the pointer-down
\* position, and that move fires the drag-start callbacks once and snapshots the
\* drag items with their distances to its own pointer position.
C26_DragThreshold ==
    /\ (DragStep({"start"}) /\ gesture.nodeDragThreshold = 0) =>
           /\ gesture.dragStarted
           /\ gesture.dragItems = SnapshotAtEvent
    /\ (/\ DragStep({"start", "drag"})
        /\ gesture.nodeDragThreshold > 0
        /\ ~gesture.passed) => (~gesture.dragStarted /\ Quiet)
    /\ (/\ DragStep({"drag"})
        /\ ~lastOp.before.passed /\ gesture.passed /\ ~gesture.abortDrag) =>
           /\ gesture.dragStarted
           /\ gesture.dragItems = SnapshotAtEvent
           /\ lastOp.callbacks = IF gesture.dragItems # << >> THEN <<"dragStart">> ELSE << >>
           /\ NoWrite

SameItems ==
    /\ Len(gesture.dragItems) = Len(lastOp.before.dragItems)
    /\ \A i \in DOMAIN gesture.dragItems : gesture.dragItems[i].key = lastOp.before.dragItems[i].key

ItemMoved(i) ==
    gesture.dragItems[i].value.position # lastOp.before.dragItems[i].value.position

\* C27: a move event of a started drag, or a step of autoPan, calls
\* updateNodePositions (once, with dragging = true and all drag items) exactly
\* when the position of some drag item changed, and the drag callbacks exactly when
\* a move event changed one; a drag item whose node is not in the lookup stays as
\* it is, and every drag item keeps its distance.
C27_WriteOnChange ==
    (/\ DragStep({"drag", "frame", "resume"})
     /\ lastOp.before.dragStarted) =>
        /\ SameItems
        /\ \A i \in DOMAIN gesture.dragItems :
              /\ gesture.dragItems[i].value.distance
                     = lastOp.before.dragItems[i].value.distance
              /\ ~MapHas(nodeLookup, gesture.dragItems[i].key) =>
                     gesture.dragItems[i] = lastOp.before.dragItems[i]
        /\ IF \E i \in DOMAIN gesture.dragItems : ItemMoved(i)
           THEN /\ lastOp.writes = <<WriteOf(gesture.dragItems, TRUE)>>
                /\ lastOp.callbacks = IF lastOp.op = "drag" THEN <<"drag">> ELSE << >>
           ELSE NoWrite /\ lastOp.callbacks = << >>

\* A move of a drag of "a" and "b" after "b" was removed: the write carries the
\* new position of "a" and the last one of "b".
C27_Witness ==
    /\ DragStep({"drag"}) /\ lastOp.before.dragStarted
    /\ Len(gesture.dragItems) = 2
    /\ ~MapHas(nodeLookup, "b")
    /\ ItemMoved(1) /\ ~ItemMoved(2)
    /\ lastOp.writes = <<WriteOf(gesture.dragItems, TRUE)>>

\* A move of a drag of "b" alone after "b" was removed: the pointer moved, no
\* position changed, and nothing was written or called.
C27_Skipped ==
    /\ DragStep({"drag"}) /\ lastOp.before.dragStarted /\ ~gesture.abortDrag
    /\ gesture.lastPos # lastOp.before.lastPos
    /\ Len(gesture.dragItems) = 1
    /\ Quiet

(***************************************************************************)
(* Specification of the selection drag under a bounded nodeExtent: "a",    *)
(* "b" and "c" (a child of the unselected "p") are selected and have no    *)
(* extent of their own; the pointer goes down, moves to places inside and  *)
(* far outside the extent, and goes up.                                    *)
(***************************************************************************)
SP == [ref |-> 31, id |-> "p", position |-> [x |-> 5, y |-> 5],
       measured |-> [width |-> 50, height |-> 30]]
SA == [ref |-> 32, id |-> "a", position |-> [x |-> 10, y |-> 10],
       measured |-> [width |-> 10, height |-> 10], selected |-> TRUE]
SB == [ref |-> 33, id |-> "b", position |-> [x |-> 30, y |-> 15],
       measured |-> [width |-> 20, height |-> 10], selected |-> TRUE]
SC == [ref |-> 34, id |-> "c", parentId |-> "p", position |-> [x |-> 20, y |-> 0],
       measured |-> [width |-> 10, height |-> 10], selected |-> TRUE]
SelectionPoolRefs == {SP.ref, SA.ref, SB.ref, SC.ref}

SelectionExtents == {CoordExtent(0, 0, 80, 60), CoordExtent(0, 0, 45, 30)}

SelectionStart == [x |-> 20, y |-> 20]

SelectionPoints ==
    {[x |-> x, y |-> y, mouse |-> [x |-> 100, y |-> 100]] :
        x \in {-40, 20, 26, 100}, y \in {-30, 20, 90}}

SelectionStore(extent) ==
    setNodes(EmptyStore([nodeExtent |-> extent], TRUE, {}), <<SP, SA, SB, SC>>)

InitSelectionDrag ==
    /\ \E extent \in SelectionExtents : StoreHolds(SelectionStore(extent))
    /\ panZoom = TRUE
    /\ transform = [x |-> 0, y |-> 0, k |-> 1]
    /\ minZoom = 1 /\ maxZoom = 2
    /\ translateExtent = InfiniteExtent
    /\ \E nodeId \in {<<"b">>, << >>} : gesture = NewDrag(nodeId, 0, FALSE, AutoPanDistance)
    /\ QueueIdle
    /\ PureIdle

SelectionDown ==
    /\ gesture.pointer = "up"
    /\ LET event == [x |-> SelectionStart.x, y |-> SelectionStart.y,
                     mouse |-> [x |-> 100, y |-> 100], touches |-> 1,
                     containerBounds |-> DragContainer]
           down(w) == [w EXCEPT !.drag.pointer = "down",
                                !.drag.downAt = [x |-> event.x, y |-> event.y],
                                !.drag.passed = TRUE]
       IN  DragBecomes(down(onStart(Now, event)), [op |-> "start", event |-> event])

SelectionMove ==
    /\ gesture.pointer = "down"
    /\ \E point \in SelectionPoints :
          LET event == [x |-> point.x, y |-> point.y, mouse |-> point.mouse, touches |-> 1]
          IN  DragBecomes(onDrag(Now, event, SelectionPoolRefs),
                          [op |-> "drag", event |-> event])

SelectionUp ==
    /\ gesture.pointer = "down"
    /\ LET up(w) == [w EXCEPT !.drag.pointer = "up"]
       IN  DragBecomes(up(onEnd(Now, SelectionPoolRefs)), [op |-> "end", event |-> << >>])

NextSelectionDrag == SelectionDown \/ SelectionMove \/ SelectionUp

SpecSelectionDrag == InitSelectionDrag /\ [][NextSelectionDrag]_vars

\* The rectangle of a dragged node lies inside the node extent.
InsideExtent(positionAbsolute, measured) ==
    /\ nodeExtent.x1 <= positionAbsolute.x
    /\ nodeExtent.y1 <= positionAbsolute.y
    /\ positionAbsolute.x + measured.width <= nodeExtent.x2
    /\ positionAbsolute.y + measured.height <= nodeExtent.y2

\* The offset between the absolute positions of two nodes in a lookup.
OffsetIn(nl, a, b) ==
    [x |-> MapGet(nl, a).internals.positionAbsolute.x
             - MapGet(nl, b).internals.positionAbsolute.x,
     y |-> MapGet(nl, a).internals.positionAbsolute.y
             - MapGet(nl, b).internals.positionAbsolute.y]

\* The node extent can hold the bounding box of the drag items.
HoldsSelection ==
    LET box == nodesBoxOf(gesture.dragItems)
    IN  /\ box.x2 - box.x <= nodeExtent.x2 - nodeExtent.x1
        /\ box.y2 - box.y <= nodeExtent.y2 - nodeExtent.y1

\* A move of a selection drag of several nodes has run.
SelectionMoved ==
    /\ lastOp.op = "drag"
    /\ gesture.dragStarted
    /\ Len(gesture.dragItems) > 1

\* C28: while several nodes without own extents are dragged together under a
\* bounded nodeExtent that can hold the selection, after every move the offset
\* between the absolute positions of any two dragged nodes is their offset at
\* drag start (in the drag items and in the node lookup of the store), and the
\* rectangle of every dragged node lies inside nodeExtent.
C28_RigidSelection ==
    (SelectionMoved /\ HoldsSelection /\ ~nodeExtent.infinite) =>
        LET Rigid(start) ==
                \A i \in DOMAIN gesture.dragItems :
                    LET item == gesture.dragItems[i].value
                        node == MapGet(nodeLookup, item.id)
                    IN  /\ InsideExtent(item.internals.positionAbsolute, item.measured)
                        /\ InsideExtent(node.internals.positionAbsolute, item.measured)
                        /\ node.internals.positionAbsolute = item.internals.positionAbsolute
                        /\ \A j \in DOMAIN gesture.dragItems :
                               OffsetIn(nodeLookup, item.id, gesture.dragItems[j].key)
                                   = OffsetIn(start, item.id, gesture.dragItems[j].key)
        IN  Rigid(SelectionStore(nodeExtent).nodeLookup)

\* A move pushed the selection of three nodes against the right and bottom
\* edges of the extent: the pointer asked for more than the extent allows.
C28_Witness ==
    /\ SelectionMoved
    /\ HoldsSelection
    /\ Len(gesture.dragItems) = 3
    /\ lastOp.event.x = 100 /\ lastOp.event.y = 90
    /\ lastOp.writes # << >>
    /\ nodesBoxOf(gesture.dragItems).x2 = nodeExtent.x2
    /\ nodesBoxOf(gesture.dragItems).y2 = nodeExtent.y2

(***************************************************************************)
(* Specification of the drag of expandParent children: "c" and "d" are     *)
(* children of "p" with expandParent, "s" is a child of "p" that is not    *)
(* dragged.  The drag instance is on "c"; "d" is dragged along when it is  *)
(* selected.  The store applies the changes itself and the consumer's      *)
(* onNodesChange sees them.  Nodes are placed by their top left corner,    *)
(* whatever the node origin.                                               *)
(***************************************************************************)
MaxExpandEvents == 5

ExpandOrigins == {<<0, 0>>, <<1, 1>>}

Placed(node, left, top, origin) ==
    With(node, "position", [x |-> left + node.measured.width * origin[1],
                            y |-> top + node.measured.height * origin[2]])

EP == [ref |-> 41, id |-> "p", measured |-> [width |-> 30, height |-> 30]]
EC == [ref |-> 42, id |-> "c", parentId |-> "p", expandParent |-> TRUE,
       measured |-> [width |-> 10, height |-> 10]]
ED == [ref |-> 43, id |-> "d", parentId |-> "p", expandParent |-> TRUE,
       measured |-> [width |-> 10, height |-> 10]]
ES == [ref |-> 44, id |-> "s", parentId |-> "p", measured |-> [width |-> 10, height |-> 10]]
ExpandPoolRefs == {EP.ref, EC.ref, ED.ref, ES.ref}

ExpandNodes(origin, both) ==
    <<Placed(EP, 20, 20, origin), Placed(EC, 5, 5, origin),
      Placed(IF both THEN With(ED, "selected", TRUE) ELSE ED, 18, 5, origin),
      Placed(ES, 15, 18, origin)>>

ExpandStore(origin, both) ==
    setNodes(EmptyStore([nodeOrigin |-> origin], TRUE, {"onNodesChange"}),
             ExpandNodes(origin, both))

ExpandStart == [x |-> 30, y |-> 30]

ExpandPoints ==
    {[x |-> x, y |-> y, mouse |-> [x |-> 100, y |-> 100]] :
        x \in {22, 30, 33, 60}, y \in {20, 30, 70}}

InitExpandDrag ==
    /\ \E origin \in ExpandOrigins, both \in BOOLEAN : StoreHolds(ExpandStore(origin, both))
    /\ panZoom = TRUE
    /\ transform = [x |-> 0, y |-> 0, k |-> 1]
    /\ minZoom = 1 /\ maxZoom = 2
    /\ translateExtent = InfiniteExtent
    /\ gesture = NewDrag(<<"c">>, 0, FALSE, AutoPanDistance)
    /\ QueueIdle
    /\ PureIdle

ExpandDown ==
    /\ triggered < MaxExpandEvents
    /\ gesture.pointer = "up"
    /\ LET event == [x |-> ExpandStart.x, y |-> ExpandStart.y,
                     mouse |-> [x |-> 100, y |-> 100], touches |-> 1,
                     containerBounds |-> DragContainer]
           down(w) == [w EXCEPT !.drag.pointer = "down",
                                !.drag.downAt = [x |-> event.x, y |-> event.y],
                                !.drag.passed = TRUE]
       IN  DragBecomes(down(onStart(Now, event)), [op |-> "start", event |-> event])

ExpandMove ==
    /\ triggered < MaxExpandEvents
    /\ gesture.pointer = "down"
    /\ \E point \in ExpandPoints :
          LET event == [x |-> point.x, y |-> point.y, mouse |-> point.mouse, touches |-> 1]
          IN  DragBecomes(onDrag(Now, event, ExpandPoolRefs), [op |-> "drag", event |-> event])

ExpandUp ==
    /\ triggered < MaxExpandEvents
    /\ gesture.pointer = "down"
    /\ LET up(w) == [w EXCEPT !.drag.pointer = "up"]
       IN  DragBecomes(up(onEnd(Now, ExpandPoolRefs)), [op |-> "end", event |-> << >>])

NextExpandDrag == ExpandDown \/ ExpandMove \/ ExpandUp

SpecExpandDrag == InitExpandDrag /\ [][NextExpandDrag]_vars

\* Rectangle inner lies inside rectangle outer.
RectInside(inner, outer) ==
    /\ outer.x <= inner.x
    /\ outer.y <= inner.y
    /\ inner.x + inner.width <= outer.x + outer.width
    /\ inner.y + inner.height <= outer.y + outer.height

\* The drag items of nodes that have expandParent and a parent in the lookup nl.
ExpandItems(dragItems, nl) ==
    SelectSeq(dragItems,
              LAMBDA e : /\ MapHas(nl, e.key)
                         /\ FieldOr(MapGet(nl, e.key), "expandParent", FALSE)
                         /\ Has(MapGet(nl, e.key), "parentId")
                         /\ MapHas(nl, MapGet(nl, e.key).parentId))

\* The rectangle a drag item asks for.
ItemRect(item) ==
    [x |-> item.internals.positionAbsolute.x, y |-> item.internals.positionAbsolute.y,
     width |-> item.measured.width, height |-> item.measured.height]

\* Some dragged expandParent child leaves the rectangle its parent has in nl.
SomeLeaves(dragItems, nl) ==
    \E i \in DOMAIN ExpandItems(dragItems, nl) :
        LET item == ExpandItems(dragItems, nl)[i].value
        IN  ~RectInside(ItemRect(item), nodeToRect(MapGet(nl, item.parentId)))

\* The non-dragged children of the parents of the dragged expandParent children.
SiblingIds(dragItems, nl) ==
    {nl[k].key : k \in {k \in DOMAIN nl :
        /\ Has(nl[k].value, "parentId")
        /\ \E i \in DOMAIN ExpandItems(dragItems, nl) :
              ExpandItems(dragItems, nl)[i].value.parentId = nl[k].value.parentId
        /\ ~\E i \in DOMAIN dragItems : dragItems[i].key = nl[k].key}}

ParentIds(dragItems, nl) ==
    {ExpandItems(dragItems, nl)[i].value.parentId : i \in DOMAIN ExpandItems(dragItems, nl)}

\* After the changes are applied and the nodes adopted again (lookup after), the
\* parents contain the dragged expandParent children, are not smaller than in
\* the lookup before, and the siblings are where they were on the canvas.
Expanded(dragItems, before, after) ==
    /\ \A i \in DOMAIN ExpandItems(dragItems, before) :
          LET id == ExpandItems(dragItems, before)[i].key
          IN  RectInside(nodeToRect(MapGet(after, id)),
                         nodeToRect(MapGet(after, MapGet(before, id).parentId)))
    /\ \A p \in ParentIds(dragItems, before) :
          /\ nodeToRect(MapGet(after, p)).width >= nodeToRect(MapGet(before, p)).width
          /\ nodeToRect(MapGet(after, p)).height >= nodeToRect(MapGet(before, p)).height
    /\ \A s \in SiblingIds(dragItems, before) :
          MapGet(after, s).internals.positionAbsolute
              = MapGet(before, s).internals.positionAbsolute

\* No change of a parent or of a sibling is among the changes the handlers saw.
NoExpansion(dragItems, before, calls) ==
    \A n \in DOMAIN calls : \A c \in DOMAIN calls[n].changes :
        calls[n].changes[c].id \notin ParentIds(dragItems, before) \cup SiblingIds(dragItems, before)

\* C29: when dragged nodes with expandParent and a parentId leave the rectangle
\* of their parent, the changes updateNodePositions emits, once applied and
\* adopted, make the parent contain every such child, never make the parent
\* smaller and leave every non-dragged sibling where it was on the canvas; when
\* all such children stay inside the parent, no change of the parent or of a
\* sibling is emitted.
C29_ParentExpansion ==
    [][(lastOp'.op \in {"drag", "end"} /\ lastOp'.writes # << >>) =>
          IF SomeLeaves(gesture'.dragItems, nodeLookup)
          THEN Expanded(gesture'.dragItems, nodeLookup, nodeLookup')
          ELSE NoExpansion(gesture'.dragItems, nodeLookup, notified')]_vars

(***************************************************************************)
(* xyresizer/XYResizer.ts: the drag and end handlers of the resizer.  The  *)
(* closure r holds prevValues, startValues and childNodes; a drag frame    *)
(* carries the pointer position and what shouldResize answers; `calls` are *)
(* the callbacks the handler made.                                         *)
(***************************************************************************)
Sign(n) == IF n > 0 THEN 1 ELSE IF n < 0 THEN 0 - 1 ELSE 0

getResizeDirection(width, prevWidth, height, prevHeight, affectsX, affectsY) ==
    <<Sign(width - prevWidth) * (IF width # prevWidth /\ affectsX THEN 0 - 1 ELSE 1),
      Sign(height - prevHeight) * (IF height # prevHeight /\ affectsY THEN 0 - 1 ELSE 1)>>

\* A child left where it is when the node's top left corner moves.
correctedChildPositionNone(position, xChange, yChange, origin, widthChange, heightChange) ==
    position

\* The recorded position of a child, corrected for the movement of the node's
\* position and for the size change scaled by the node origin.
correctedChildPosition(position, xChange, yChange, origin, widthChange, heightChange) ==
    [x |-> position.x - xChange + origin[1] * widthChange,
     y |-> position.y - yChange + origin[2] * heightChange]

\* .on('drag', ...) of the resizer.
onResizeDrag(r, pointerPosition, callResize) ==
    LET handled(d) ==
            LET prev == r.prevValues
                origin == r.nodeOrigin
                isWidthChange == d.width # prev.width
                isHeightChange == d.height # prev.height
                isXPosChange == d.x # prev.x /\ isWidthChange
                isYPosChange == d.y # prev.y /\ isHeightChange
                moved == isXPosChange \/ isYPosChange \/ origin[1] = 1 \/ origin[2] = 1
                sized == isWidthChange \/ isHeightChange
                changeX == IF isXPosChange THEN d.x ELSE prev.x
                changeY == IF isYPosChange THEN d.y ELSE prev.y
                changeWidth == IF isWidthChange THEN d.width ELSE prev.width
                changeHeight == IF isHeightChange THEN d.height ELSE prev.height
                change == (IF moved THEN [x |-> changeX, y |-> changeY] ELSE << >>)
                              @@ (IF sized THEN [width |-> changeWidth, height |-> changeHeight]
                                  ELSE << >>)
                childNodes ==
                    IF moved
                    THEN [i \in DOMAIN r.childNodes |->
                             [r.childNodes[i] EXCEPT
                                 !.position = correctedChildPosition(
                                                  @, d.x - prev.x, d.y - prev.y, origin,
                                                  d.width - prev.width,
                                                  d.height - prev.height)]]
                    ELSE r.childNodes
                childChanges == IF moved THEN childNodes ELSE << >>
                xLimit == origin[1] * FieldOr(change, "width", 0)
                yLimit == origin[2] * FieldOr(change, "height", 0)
                fixX == r.expandParent /\ Has(change, "x") /\ change.x # 0 /\ change.x < xLimit
                fixY == r.expandParent /\ Has(change, "y") /\ change.y # 0 /\ change.y < yLimit
                prevValues ==
                    [width |-> IF sized THEN changeWidth ELSE prev.width,
                     height |-> IF sized THEN changeHeight ELSE prev.height,
                     x |-> IF fixX THEN xLimit ELSE IF moved THEN changeX ELSE prev.x,
                     y |-> IF fixY THEN yLimit ELSE IF moved THEN changeY ELSE prev.y]
                startValues ==
                    [r.startValues EXCEPT
                        !.x = IF fixX THEN @ - (change.x - xLimit) ELSE @,
                        !.y = IF fixY THEN @ - (change.y - yLimit) ELSE @]
                nextValues ==
                    prevValues @@ [direction |->
                        getResizeDirection(prevValues.width, prev.width, prevValues.height,
                                           prev.height, getControlDirection(r.controlPosition).affectsX,
                                           getControlDirection(r.controlPosition).affectsY)]
                recorded == [r EXCEPT !.prevValues = prevValues, !.startValues = startValues,
                                      !.childNodes = childNodes]
            IN  IF ~isXPosChange /\ ~isYPosChange /\ ~isWidthChange /\ ~isHeightChange
                THEN [resizer |-> r, calls |-> << >>, asked |-> d]
                ELSE IF ~callResize
                THEN [resizer |-> recorded, calls |-> << >>, asked |-> d]
                ELSE [resizer |-> recorded,
                      calls |-> <<[fn |-> "onResize", values |-> nextValues],
                                  [fn |-> "onChange", change |-> change,
                                   childChanges |-> childChanges]>>,
                      asked |-> d]
    IN  handled(getDimensionsAfterResize(
                    r.startValues, getControlDirection(r.controlPosition), pointerPosition,
                    r.boundaries, r.keepAspectRatio, r.nodeOrigin, r.parentExtent,
                    r.childExtent))

\* .on('end', ...) of the resizer.
onResizeEnd(r) ==
    [resizer |-> r, calls |-> <<[fn |-> "onResizeEnd", values |-> r.prevValues], [fn |-> "onEnd"]>>]

\* .on('start', ...) of the resizer: node is the resized node as the lookup holds
\* it, parent its parent (<< >> if the lookup has none) and children its direct
\* children.
RECURSIVE childExtentOf(_, _, _, _)
childExtentOf(children, node, origin, acc) ==
    IF children = << >> THEN acc
    ELSE LET child == Head(children)
             extent == nodeToChildExtent(child, node, FieldOr(child, "origin", origin))
         IN  childExtentOf(
                 Tail(children), node, origin,
                 IF isParentExtent(child) \/ FieldOr(child, "expandParent", FALSE)
                 THEN IF acc = << >> THEN <<extent>>
                      ELSE <<CoordExtent(Min(extent.x1, acc[1].x1), Min(extent.y1, acc[1].y1),
                                         Max(extent.x2, acc[1].x2), Max(extent.y2, acc[1].y2))>>
                 ELSE acc)

onResizeStart(r, node, parent, children, origin) ==
    LET constrained == Has(node, "parentId")
                          /\ (isParentExtent(node) \/ FieldOr(node, "expandParent", FALSE))
    IN  [r EXCEPT
            !.prevValues = [width |-> FieldOr(node.measured, "width", 0),
                            height |-> FieldOr(node.measured, "height", 0),
                            x |-> node.position.x, y |-> node.position.y],
            !.startValues = StartValuesOf(node),
            !.expandParent = constrained /\ parent # << >>
                                /\ FieldOr(node, "expandParent", FALSE),
            !.parentExtent = IF constrained
                             THEN IF parent # << >> /\ isParentExtent(node)
                                  THEN <<nodeToParentExtent(parent[1])>> ELSE << >>
                             ELSE @,
            !.childNodes = [i \in DOMAIN children |->
                               [id |-> children[i].id, position |-> children[i].position]],
            !.childExtent = childExtentOf(children, node, origin, << >>)]

(***************************************************************************)
(* Specification of resize gestures on one handle of a node with a child.  *)
(* `world` is what the store holds of the node and its child: at first a   *)
(* 200 x 100 node with its top left corner at (50, 50), then what onChange *)
(* delivered.  Before a gesture the consumer may have given the node       *)
(* extent 'parent' or expandParent, or neither, and the child extent       *)
(* 'parent' or not.  Every frame the consumer's shouldResize accepts or    *)
(* rejects.  `delivered` is what the last accepted frame handed to         *)
(* onResize (at first, what the node has).                                 *)
(***************************************************************************)
MaxFrames == 4

NodeKinds == {"free", "extentParent", "expandParent"}

\* The node and its child as the lookup holds them.
WorldNode(world, kind) ==
    LET node == [id |-> "n", parentId |-> "p",
                 position |-> [x |-> world.x, y |-> world.y],
                 measured |-> [width |-> world.width, height |-> world.height]]
    IN  IF kind = "extentParent" THEN With(node, "extent", [kind |-> "parent"])
        ELSE IF kind = "expandParent" THEN With(node, "expandParent", TRUE)
        ELSE node

WorldChildren(world, bound) ==
    [i \in DOMAIN world.children |->
        LET child == [id |-> world.children[i].id, parentId |-> "n",
                      position |-> world.children[i].position,
                      measured |-> [width |-> 40, height |-> 40]]
        IN  IF bound THEN With(child, "extent", [kind |-> "parent"]) ELSE child]

FirstWorld(origin) ==
    [x |-> ResizedNode(<<200, 100>>, origin).position.x,
     y |-> ResizedNode(<<200, 100>>, origin).position.y,
     width |-> 200, height |-> 100,
     children |-> <<[id |-> "k", position |-> ResizeChild(origin).position]>>]

\* What update() leaves in the closure, for a handle, with the store's node
\* origin.
NewResizer(controlPosition, origin) ==
    [prevValues |-> [width |-> 0, height |-> 0, x |-> 0, y |-> 0],
     startValues |-> [width |-> 0, height |-> 0, x |-> 0, y |-> 0, pointerX |-> 0,
                      pointerY |-> 0, aspectRatio |-> [num |-> 1, den |-> 1]],
     controlPosition |-> controlPosition,
     boundaries |-> [minWidth |-> 10, maxWidth |-> 10000, minHeight |-> 10,
                     maxHeight |-> 10000],
     keepAspectRatio |-> FALSE, nodeOrigin |-> origin, parentExtent |-> << >>,
     childExtent |-> << >>, childNodes |-> << >>, expandParent |-> FALSE,
     phase |-> "idle", kind |-> "free", bound |-> FALSE,
     world |-> FirstWorld(origin), startWorld |-> FirstWorld(origin),
     delivered |-> << >>]

InitResizer ==
    /\ StoreHolds(EmptyStore(<< >>, FALSE, {}))
    /\ ViewIdle
    /\ QueueIdle
    /\ PureIdle
    /\ \E c \in {{"bottom", "right"}, {"top", "left"}}, o \in {<<0, 0>>, <<1, 1>>} :
          gesture = NewResizer(c, o)

\* The store after onChange(change, childChanges).  A node that expands its
\* parent is kept inside it by moving the parent, and is then where the
\* resizer recorded it.
Changed(world, r, calls) ==
    IF calls = << >> \/ calls[1].fn # "onResize" THEN world
    ELSE LET change == calls[2].change
             childChanges == calls[2].childChanges
         IN  [x |-> IF r.expandParent THEN r.prevValues.x ELSE FieldOr(change, "x", world.x),
              y |-> IF r.expandParent THEN r.prevValues.y ELSE FieldOr(change, "y", world.y),
              width |-> FieldOr(change, "width", world.width),
              height |-> FieldOr(change, "height", world.height),
              children |-> IF childChanges = << >> THEN world.children
                           ELSE [i \in DOMAIN childChanges |->
                                    [id |-> childChanges[i].id,
                                     position |-> childChanges[i].position]]]

ResizerBecomes(out, op) ==
    /\ triggered < MaxFrames
    /\ triggered' = triggered + 1
    /\ gesture' = [out.resizer EXCEPT
                      !.world = Changed(@, out.resizer, out.calls),
                      !.delivered = IF out.calls # << >> /\ out.calls[1].fn = "onResize"
                                    THEN out.resizer.prevValues ELSE @]
    /\ lastOp' = op @@ [calls |-> out.calls, before |-> gesture]
    /\ UNCHANGED <<nodes, nodeLookup, parentLookup, nodeExtent, nodeOrigin,
                   elevateNodesOnSelect, storeParams, hasDefaultNodes, edges, edgeLookup,
                   connectionLookup, hasDefaultEdges, handlers, notified,
                   viewVars, queueVars, pureVars>>

\* The pointer goes down on the handle.
ResizerStart ==
    /\ gesture.phase = "idle"
    /\ \E kind \in NodeKinds, bound \in BOOLEAN :
          LET started(r) == [r EXCEPT !.phase = "resizing", !.kind = kind, !.bound = bound,
                                      !.startWorld = r.world, !.delivered = r.prevValues]
          IN  ResizerBecomes(
                  [resizer |-> started(onResizeStart(
                                   gesture, WorldNode(gesture.world, kind), <<ResizeParent>>,
                                   WorldChildren(gesture.world, bound), gesture.nodeOrigin)),
                   calls |-> <<[fn |-> "onResizeStart"]>>],
                  [op |-> "resizeStart"])

\* A drag frame of the resize gesture.
ResizerDrag ==
    /\ gesture.phase = "resizing"
    /\ triggered < MaxFrames
    /\ \E pointerPosition \in PointerPositions, callResize \in BOOLEAN :
          LET frame(out) ==
                  ResizerBecomes(out, [op |-> "resizeFrame", pointerPosition |-> pointerPosition,
                                       callResize |-> callResize, asked |-> out.asked])
          IN  frame(onResizeDrag(gesture, pointerPosition, callResize))

\* The pointer goes up.
ResizerEnd ==
    /\ gesture.phase = "resizing"
    /\ ResizerBecomes(onResizeEnd([gesture EXCEPT !.phase = "idle"]), [op |-> "resizeEnd"])

NextResizer == ResizerStart \/ ResizerDrag \/ ResizerEnd

SpecResizer == InitResizer /\ [][NextResizer]_vars

\* The last frame was rejected by shouldResize.
FrameRejected == lastOp.op = "resizeFrame" /\ ~lastOp.callResize

\* The last frame was accepted, and asked for a size other than the delivered one.
FrameAccepted ==
    /\ lastOp.op = "resizeFrame" /\ lastOp.callResize
    /\ \/ lastOp.asked.width # lastOp.before.delivered.width
       \/ lastOp.asked.height # lastOp.before.delivered.height

\* C30: if shouldResize rejects a resize frame, onResize and onChange are not
\* called for that frame and the recorded state of the resizer (previous width,
\* height, x, y and the recorded child positions) is what it was before the
\* frame; a later frame the predicate accepts is written through with the
\* change relative to the last delivered values, and onResizeEnd reports the
\* last delivered values.
C30_ShouldResize ==
    /\ FrameRejected =>
          /\ lastOp.calls = << >>
          /\ gesture.prevValues = lastOp.before.prevValues
          /\ gesture.childNodes = lastOp.before.childNodes
    /\ FrameAccepted =>
          /\ lastOp.calls # << >>
          /\ lastOp.calls[1].values.width = lastOp.asked.width
          /\ lastOp.calls[1].values.height = lastOp.asked.height
    /\ lastOp.op = "resizeEnd" =>
          /\ lastOp.calls[1].fn = "onResizeEnd"
          /\ lastOp.calls[1].values = lastOp.before.delivered

\* C31: for every handle, pointer position and keepAspectRatio setting, when the
\* start size lies within the boundaries, getDimensionsAfterResize returns
\* minWidth <= width <= maxWidth and minHeight <= height <= maxHeight.
C31_SizeBoundaries ==
    (/\ Resized
     /\ gesture.boundaries.minWidth <= gesture.startValues.width
     /\ gesture.startValues.width <= gesture.boundaries.maxWidth
     /\ gesture.boundaries.minHeight <= gesture.startValues.height
     /\ gesture.startValues.height <= gesture.boundaries.maxHeight) =>
        /\ gesture.boundaries.minWidth <= result.width
        /\ result.width <= gesture.boundaries.maxWidth
        /\ gesture.boundaries.minHeight <= result.height
        /\ result.height <= gesture.boundaries.maxHeight

\* A 200 x 100 node with kept aspect ratio was shrunk at the right handle by 60:
\* the minimum height of 80 stopped the width at 160.
C31_Witness ==
    /\ Resized /\ gesture.keepAspectRatio
    /\ gesture.boundaries.minHeight = 80
    /\ gesture.startValues.width = 200 /\ gesture.startValues.height = 100
    /\ gesture.controlPosition = {"right"}
    /\ lastOp.pointerPosition.xSnapped = 0 - 60
    /\ result.width = 160 /\ result.height = 80

\* The rectangle of the resized node after the frame, in its parent: the returned
\* position is the place of the node origin.
ResizedRect ==
    [x |-> result.x - gesture.nodeOrigin[1] * result.width,
     y |-> result.y - gesture.nodeOrigin[2] * result.height,
     width |-> result.width, height |-> result.height]

\* C32: for a node with extent 'parent' that lies inside its parent at resize
\* start, after every resize frame the rectangle of the node (accounting for the
\* node origin) stays inside [0, 0] - [parent width, parent height], for every
\* handle and both keepAspectRatio settings.
C32_InsideParent ==
    (Resized /\ gesture.extent # << >>) =>
        /\ ResizedRect.x >= gesture.extent[1].x1
        /\ ResizedRect.y >= gesture.extent[1].y1
        /\ ResizedRect.x + ResizedRect.width <= gesture.extent[1].x2
        /\ ResizedRect.y + ResizedRect.height <= gesture.extent[1].y2

\* A 200 x 100 node with kept aspect ratio was pulled at the top left handle by
\* (-60, -60): it grew up to the left edge of its parent and no farther.
C32_Witness ==
    /\ Resized /\ gesture.extent # << >>
    /\ gesture.keepAspectRatio
    /\ gesture.startValues.width = 200 /\ gesture.startValues.height = 100
    /\ gesture.boundaries.maxWidth = 10000
    /\ gesture.controlPosition = {"top", "left"}
    /\ lastOp.pointerPosition = [xSnapped |-> 0 - 60, ySnapped |-> 0 - 60]
    /\ ResizedRect.x = 0
    /\ ResizedRect.width > gesture.startValues.width

\* The rectangle the child extent stands for, in the parent of the resized node:
\* nodeToChildExtent adds the child's place to the position of the node, which
\* lies nodeOrigin * size away from the node's top left corner.
ChildRect ==
    [x |-> gesture.childExtent[1].x1 - gesture.nodeOrigin[1] * gesture.startValues.width,
     y |-> gesture.childExtent[1].y1 - gesture.nodeOrigin[2] * gesture.startValues.height,
     width |-> gesture.childExtent[1].x2 - gesture.childExtent[1].x1,
     height |-> gesture.childExtent[1].y2 - gesture.childExtent[1].y1]

\* C33: after every resize frame the rectangle of the resized node still contains
\* the rectangles of its direct children with extent 'parent' or expandParent, as
\* they were at resize start, for every handle and both keepAspectRatio settings.
C33_ContainsChildren ==
    (Resized /\ gesture.childExtent # << >>) => RectInside(ChildRect, ResizedRect)

\* A node was shrunk at the top left handle by (50, 50): its corner stopped at
\* the top left corner of the child, 20 inside the node.
C33_Witness ==
    /\ Resized /\ gesture.childExtent # << >>
    /\ gesture.controlPosition = {"top", "left"}
    /\ ~gesture.keepAspectRatio
    /\ gesture.boundaries.minWidth = 10
    /\ lastOp.pointerPosition = [xSnapped |-> 50, ySnapped |-> 50]
    /\ ResizedRect.x = ChildRect.x /\ ResizedRect.y = ChildRect.y

\* The canvas position a child has for a node of the store: the node's top left
\* corner plus the child's relative position.
ChildCanvas(world, origin, i) ==
    [x |-> world.x - origin[1] * world.width + world.children[i].position.x,
     y |-> world.y - origin[2] * world.height + world.children[i].position.y]

\* The last frame was delivered to onResize and onChange.
FrameDelivered == lastOp.op = "resizeFrame" /\ lastOp.calls # << >>

BoundedByStart(r, pointerPosition) ==
    getDimensionsAfterResize(
        r.startValues, getControlDirection(r.controlPosition), pointerPosition, r.boundaries,
        r.keepAspectRatio, r.nodeOrigin,
        IF r.kind = "extentParent" THEN <<nodeToParentExtent(ResizeParent)>> ELSE << >>,
        IF r.bound THEN r.childExtent ELSE << >>)

\* C35: over any sequence of resize gestures on the same handle, a frame of a
\* gesture whose node had no extent 'parent' at its start is not clamped by a
\* parent rectangle, and a frame of a gesture whose node had no constrained
\* children is not clamped by a child rectangle.
C35_BoundsFromStart ==
    lastOp.op = "resizeFrame" =>
        lastOp.asked = BoundedByStart(lastOp.before, lastOp.pointerPosition)

(***************************************************************************)
(* Specification of applyChanges and its inputs: `elements` is the input   *)
(* array as the heap holds it, `items` a deep copy of it taken before the  *)
(* call.                                                                   *)
(***************************************************************************)
\* The input elements after applyChanges(cs, els).  `{ ...element }` copies the
\* properties of an element, so the copy's `measured` is the element's own
\* `measured` object, and what applyChange writes into it is written into the
\* input.
inputAfter(cs, els) ==
    LET cm == buildChangesMap(cs, << >>)
    IN  [i \in DOMAIN els |->
            LET e == els[i]
            IN  IF Has(cm, e.id) /\ cm[e.id][1].type \notin {"remove", "replace"}
                       /\ Has(e, "measured")
                THEN With(e, "measured", applyChangeList(cm[e.id], e).measured)
                ELSE e]

InitInputs ==
    /\ StoreIdle
    /\ QueueIdle
    /\ pc = "applyInit"
    /\ elements \in ApplyArrays
    /\ items = elements
    /\ changes \in ChangeLists
    /\ diffLookup = << >>
    /\ result = << >>

\* applyChanges(changes, elements)
ApplyToInputs ==
    /\ pc = "applyInit"
    /\ result' = applyChanges(changes, elements, {})
    /\ elements' = inputAfter(changes, elements)
    /\ pc' = "changed"
    /\ UNCHANGED <<items, changes, diffLookup, storeVars, queueVars>>

NextInputs == ApplyToInputs

SpecInputs == InitInputs /\ [][NextInputs]_vars

\* C36: applyChanges never modifies its inputs: after the call the input element
\* array and every input element object, nested objects such as `measured`
\* included, have the contents they had before the call, for every kind of
\* change.
C36_InputsUnchanged == pc = "changed" => elements = items

\* The child c of the node lookup nl has its parent in the lookup.
HasParentIn(nl, c) == Has(c, "parentId") /\ MapHas(nl, c.parentId)

\* Every child of nl whose parent is in nl is entered in pl under its parent.
ChildrenEntered(nl, pl) ==
    \A i \in DOMAIN nl :
        HasParentIn(nl, nl[i].value) =>
            /\ MapHas(pl, nl[i].value.parentId)
            /\ MapHas(MapGet(pl, nl[i].value.parentId), nl[i].key)

\* Every entry of pl is the object nl holds for a child of that parent.
EntriesCurrent(nl, pl) ==
    \A i \in DOMAIN pl : \A j \in DOMAIN pl[i].value :
        /\ MapHas(nl, pl[i].value[j].key)
        /\ MapHas(nl, pl[i].key)
        /\ pl[i].value[j].value = MapGet(nl, pl[i].value[j].key)
        /\ pl[i].value[j].value.parentId = pl[i].key

\* C37: after adoptUserNodes, parentLookup holds an entry parentId -> childId
\* exactly for the nodes of nodeLookup that have that parentId and whose parent
\* is in the lookup, and the internal node stored under the entry is the object
\* nodeLookup holds for the child, with the same positionAbsolute and z.
C37_ParentLookupAgrees ==
    Adopted => ChildrenEntered(nodeLookup, parentLookup) /\ EntriesCurrent(nodeLookup, parentLookup)

(***************************************************************************)
(* store/index.ts: addSelectedNodes, addSelectedEdges                      *)
(***************************************************************************)
\* selectedIds.map((id) => createSelectionChange(id, true))
selectAll(ids) == [i \in DOMAIN ids |-> createSelectionChange(ids[i], TRUE)]

\* A variant of addSelectedNodes that leaves the edges alone.
addSelectedNodesOnly(st, selectedNodeIds, live) ==
    IF st.multiSelectionActive THEN triggerNodeChanges(st, selectAll(selectedNodeIds), live)
    ELSE LET selection == getSelectionChanges(st.nodeLookup, Range(selectedNodeIds), TRUE)
         IN  triggerNodeChanges([st EXCEPT !.nodeLookup = selection.items],
                                selection.changes, live)

\* addSelectedNodes(selectedNodeIds); st.multiSelectionActive is the flag of the
\* store.
addSelectedNodes(st, selectedNodeIds, live) ==
    IF st.multiSelectionActive THEN triggerNodeChanges(st, selectAll(selectedNodeIds), live)
    ELSE LET selection == getSelectionChanges(st.nodeLookup, Range(selectedNodeIds), TRUE)
             triggered1 == triggerNodeChanges([st EXCEPT !.nodeLookup = selection.items],
                                              selection.changes, live)
         IN  triggerEdgeChanges(triggered1,
                                getSelectionChanges(st.edgeLookup, {}, FALSE).changes, live)

\* addSelectedEdges(selectedEdgeIds)
addSelectedEdges(st, selectedEdgeIds, live) ==
    IF st.multiSelectionActive THEN triggerEdgeChanges(st, selectAll(selectedEdgeIds), live)
    ELSE LET selection == getSelectionChanges(st.nodeLookup, {}, TRUE)
             triggered1 == triggerEdgeChanges(
                               st,
                               getSelectionChanges(st.edgeLookup, Range(selectedEdgeIds),
                                                   FALSE).changes,
                               live)
         IN  triggerNodeChanges([triggered1 EXCEPT !.nodeLookup = selection.items],
                                selection.changes, live)

(***************************************************************************)
(* Specification of the selection operations of a managed store: the store *)
(* holds two nodes and two edges, each never selected, selected or         *)
(* unselected; multiSelectionActive is what the key handler set before the *)
(* call.                                                                   *)
(***************************************************************************)
MaxSelections == 3

PickStates == {"undefined", "true", "false"}

Picked(el, state) == IF state = "undefined" THEN el ELSE With(el, "selected", state = "true")

PickNodes ==
    {<<Picked([ref |-> 1, id |-> "a", position |-> [x |-> 0, y |-> 0]], s1),
       Picked([ref |-> 2, id |-> "b", position |-> [x |-> 9, y |-> 9]], s2)>> :
        s1, s2 \in PickStates}

PickEdges ==
    {<<Picked([ref |-> 3, id |-> "e1", source |-> "a", target |-> "b"], s1),
       Picked([ref |-> 4, id |-> "e2", source |-> "b", target |-> "a"], s2)>> :
        s1, s2 \in PickStates}

PickPoolRefs == 1..4

PickedNodeIds == {<< >>, <<"a">>, <<"b">>, <<"a", "b">>, <<"b", "x">>}
PickedEdgeIds == {<< >>, <<"e1">>, <<"e2", "e1">>, <<"x">>}

InitPick ==
    /\ \E ns \in PickNodes, es \in PickEdges :
          StoreIs(setEdges(setNodes(EmptyStore(<< >>, TRUE, {"onNodesChange", "onEdgesChange"}),
                                    ns), es))
    /\ QueueIdle
    /\ PureIdle

PickBecomes(st, op) ==
    /\ triggered < MaxSelections
    /\ triggered' = triggered + 1
    /\ StoreBecomes(st)
    /\ lastOp' = op @@ [nodes |-> nodes, edges |-> edges]
    /\ UNCHANGED <<queueVars, pureVars>>

AddSelectedNodes ==
    \E ids \in PickedNodeIds, multi \in BOOLEAN :
        PickBecomes(addSelectedNodes(Before @@ [multiSelectionActive |-> multi], ids,
                                     PickPoolRefs),
                    [op |-> "addSelectedNodes", ids |-> ids, multi |-> multi])

AddSelectedEdges ==
    \E ids \in PickedEdgeIds, multi \in BOOLEAN :
        PickBecomes(addSelectedEdges(Before @@ [multiSelectionActive |-> multi], ids,
                                     PickPoolRefs),
                    [op |-> "addSelectedEdges", ids |-> ids, multi |-> multi])

NextPick == AddSelectedNodes \/ AddSelectedEdges

SpecPick == InitPick /\ [][NextPick]_vars

\* The ids of the elements of the array, or of the values of the lookup, that
\* have selected = true.
SelectedIn(arr) == {arr[i].id : i \in {j \in DOMAIN arr : FieldOr(arr[j], "selected", FALSE)}}
SelectedOf(lookup) ==
    {lookup[i].key : i \in {j \in DOMAIN lookup : FieldOr(lookup[j].value, "selected", FALSE)}}

\* C38: in managed mode, without multi-selection, after addSelectedNodes(ids) the
\* selected nodes are exactly the stored nodes whose id is in ids and no edge is
\* selected, and after addSelectedEdges(ids) the selected edges are exactly those
\* in ids and no node is selected; with multi-selection the given elements
\* become selected and every node and edge selected before stays selected.
C38_SelectionExclusive ==
    /\ (lastOp.op = "addSelectedNodes" /\ ~lastOp.multi) =>
          /\ SelectedIn(nodes) = Range(Ids(nodes)) \cap Range(lastOp.ids)
          /\ SelectedOf(nodeLookup) = SelectedIn(nodes)
          /\ SelectedIn(edges) = {} /\ SelectedOf(edgeLookup) = {}
    /\ (lastOp.op = "addSelectedEdges" /\ ~lastOp.multi) =>
          /\ SelectedIn(edges) = Range(Ids(edges)) \cap Range(lastOp.ids)
          /\ SelectedOf(edgeLookup) = SelectedIn(edges)
          /\ SelectedIn(nodes) = {} /\ SelectedOf(nodeLookup) = {}
    /\ (lastOp.op = "addSelectedNodes" /\ lastOp.multi) =>
          /\ SelectedIn(nodes)
                = SelectedIn(lastOp.nodes) \cup (Range(Ids(nodes)) \cap Range(lastOp.ids))
          /\ SelectedOf(nodeLookup) = SelectedIn(nodes)
          /\ SelectedIn(edges) = SelectedIn(lastOp.edges)
    /\ (lastOp.op = "addSelectedEdges" /\ lastOp.multi) =>
          /\ SelectedIn(edges)
                = SelectedIn(lastOp.edges) \cup (Range(Ids(edges)) \cap Range(lastOp.ids))
          /\ SelectedOf(edgeLookup) = SelectedIn(edges)
          /\ SelectedIn(nodes) = SelectedIn(lastOp.nodes)
    /\ lastOp.op \in {"addSelectedNodes", "addSelectedEdges"} =>
          Ids(nodes) = Ids(lastOp.nodes) /\ Ids(edges) = Ids(lastOp.edges)

\* addSelectedNodes(['b']) without multi-selection on a store in which node a and
\* an edge were selected.
C38_Witness ==
    /\ lastOp.op = "addSelectedNodes" /\ ~lastOp.multi
    /\ lastOp.ids = <<"b">>
    /\ SelectedIn(lastOp.nodes) = {"a"}
    /\ SelectedIn(lastOp.edges) # {}
    /\ SelectedIn(nodes) = {"b"}

(***************************************************************************)
(* xydrag/utils.ts: isParentSelected and getDragItems on the call stack    *)
(***************************************************************************)
\* The frames the call stack has room for.
MaxStack == 5

\* isParentSelected(node, nodeLookup) with `frames` frames left on the call
\* stack: "true", "false", or "RangeError" when the recursion exceeds the stack.
RECURSIVE isParentSelectedWithin(_, _, _)
isParentSelectedWithin(node, nl, frames) ==
    IF frames = 0 THEN "RangeError"
    ELSE IF ~Has(node, "parentId") THEN "false"
    ELSE IF ~MapHas(nl, node.parentId) THEN "false"
    ELSE IF FieldOr(MapGet(nl, node.parentId), "selected", FALSE) THEN "true"
    ELSE isParentSelectedWithin(MapGet(nl, node.parentId), nl, frames - 1)

\* getDragItems(nodeLookup, nodesDraggable, mousePos, nodeId) with `frames` frames
\* left: the Map of drag items, or "RangeError" when a call of isParentSelected
\* it makes exceeds the stack.
getDragItemsWithin(nl, nodesDraggable, mousePos, nodeId, frames) ==
    IF \E i \in DOMAIN nl :
          /\ FieldOr(nl[i].value, "selected", FALSE) \/ <<nl[i].key>> = nodeId
          /\ Has(nl[i].value, "parentId")
          /\ isParentSelectedWithin(nl[i].value, nl, frames - 1) = "RangeError"
    THEN "RangeError"
    ELSE getDragItems(nl, nodesDraggable, mousePos, nodeId)

(***************************************************************************)
(* Specification of isParentSelected and getDragItems over the lookups     *)
(* adoptUserNodes produces from arrays of up to three user nodes a, b, c,   *)
(* each selected or not and each with no parentId or the id of a node of   *)
(* the array or of no node.                                                *)
(***************************************************************************)
ChainIds == <<"a", "b", "c">>
ChainParents == {"none", "a", "b", "c", "x"}

ChainNode(i, parent, selected) ==
    LET node == [ref |-> i, id |-> ChainIds[i], position |-> [x |-> i, y |-> i],
                 width |-> 10, height |-> 10, selected |-> selected]
    IN  IF parent = "none" THEN node ELSE With(node, "parentId", parent)

ChainArrays ==
    UNION {{[i \in 1..n |-> ChainNode(i, parents[i], selected[i])] :
               parents \in [1..n -> ChainParents], selected \in [1..n -> BOOLEAN]} :
           n \in 2..Len(ChainIds)}

InitChain ==
    /\ \E ns \in ChainArrays : StoreIs(setNodes(EmptyStore(<< >>, FALSE, {}), ns))
    /\ QueueIdle
    /\ PureIdle

ChainCalled(returned, op) ==
    /\ lastOp.op = "none"
    /\ result' = returned
    /\ lastOp' = op
    /\ UNCHANGED <<nodes, nodeLookup, parentLookup, nodeExtent, nodeOrigin,
                   elevateNodesOnSelect, storeParams, hasDefaultNodes, edges, edgeLookup,
                   connectionLookup, hasDefaultEdges, handlers, notified, triggered,
                   viewVars, gesture, queueVars, pc, elements, items, changes, diffLookup>>

\* isParentSelected(node, nodeLookup) for a node of the lookup.
IsParentSelected ==
    \E i \in DOMAIN nodeLookup :
        ChainCalled(isParentSelectedWithin(nodeLookup[i].value, nodeLookup, MaxStack),
                    [op |-> "isParentSelected", id |-> nodeLookup[i].key])

\* getDragItems(nodeLookup, true, mousePos, nodeId) for the drag of a node, or of
\* the selection.
GetDragItems ==
    \E nodeId \in {<<"a">>, <<"b">>, <<"c">>, << >>} :
        ChainCalled(getDragItemsWithin(nodeLookup, TRUE, [x |-> 0, y |-> 0], nodeId, MaxStack),
                    [op |-> "getDragItems", nodeId |-> nodeId])

NextChain == IsParentSelected \/ GetDragItems

SpecChain == InitChain /\ [][NextChain]_vars

\* The ids of the nodes on the parent chain of the node id, from its parent on.
RECURSIVE ChainOf(_, _, _)
ChainOf(id, nl, seen) ==
    LET node == MapGet(nl, id)
    IN  IF ~Has(node, "parentId") \/ ~MapHas(nl, node.parentId) \/ node.parentId \in seen
        THEN seen
        ELSE ChainOf(node.parentId, nl, seen \cup {node.parentId})

SelectedAncestor(id, nl) ==
    \E p \in ChainOf(id, nl, {}) : FieldOr(MapGet(nl, p), "selected", FALSE)

\* C39: for every node lookup adoptUserNodes produces from a user node array,
\* isParentSelected returns for every node, and returns true exactly when a node
\* on its parent chain is selected; getDragItems returns, with no drag item for a
\* node that has a selected ancestor.
C39_AncestorSelected ==
    /\ lastOp.op = "isParentSelected" =>
          /\ result # "RangeError"
          /\ (result = "true") = SelectedAncestor(lastOp.id, nodeLookup)
    /\ lastOp.op = "getDragItems" =>
          /\ result # "RangeError"
          /\ \A i \in DOMAIN result : ~SelectedAncestor(result[i].key, nodeLookup)

(***************************************************************************)
(* updateNodeInternals (store utils) and the errors it raises              *)
(***************************************************************************)
\* The pass of the loop for this update reads `nodeLookup.get(node.parentId)!`
\* of a parent the lookup does not hold and hands it to clampPositionToParent,
\* whose getNodeDimensions(parent) reads a property of undefined.
readsMissingParent(update, nl) ==
    /\ MapHas(nl, update.id)
    /\ LET node == MapGet(nl, update.id)
           dimensionChanged ==
               \/ ~Has(node.measured, "width") \/ ~Has(node.measured, "height")
               \/ node.measured.width # update.dimensions.width
               \/ node.measured.height # update.dimensions.height
       IN  /\ ~FieldOr(node, "hidden", FALSE)
           /\ update.dimensions.width # 0 /\ update.dimensions.height # 0
           /\ (dimensionChanged \/ ~Has(node.internals, "handleBounds") \/ update.force)
           /\ Has(node, "parentId") /\ isParentExtent(node)
           /\ ~MapHas(nl, node.parentId)

\* The loop of updateNodeInternals from the k-th update on, up to the pass that
\* raises: what the loop collected, and whether it was left by a TypeError.
RECURSIVE internalsLoopOrThrow(_, _, _, _, _)
internalsLoopOrThrow(k, updates, acc, origin0, extent0) ==
    IF k > Len(updates) THEN [thrown |-> "none", looped |-> acc]
    ELSE IF readsMissingParent(updates[k], acc.nodeLookup)
    THEN [thrown |-> "TypeError", looped |-> acc]
    ELSE internalsLoopOrThrow(k + 1, updates,
                              internalsUpdate(updates[k], acc, origin0, extent0),
                              origin0, extent0)

\* updateNodeInternals(updates, nodeLookup, parentLookup, domNode, nodeOrigin,
\* nodeExtent): what it returns and leaves in the lookups, or the error it raises
\* and the lookups as the passes before left them.
updateNodeInternalsOrThrow(updates, nl, pl, hasViewport, origin0, extent0) ==
    LET outcome(run) ==
            IF run.thrown = "none"
            THEN updateNodeInternalsSystem(updates, nl, pl, hasViewport, origin0, extent0)
                     @@ [thrown |-> "none"]
            ELSE [thrown |-> run.thrown, nodeLookup |-> run.looped.nodeLookup,
                  parentLookup |-> run.looped.parentLookup]
    IN  IF ~hasViewport
        THEN updateNodeInternalsSystem(updates, nl, pl, hasViewport, origin0, extent0)
                 @@ [thrown |-> "none"]
        ELSE outcome(internalsLoopOrThrow(
                         1, updates,
                         [nodeLookup |-> nl, parentLookup |-> pl, updatedInternals |-> FALSE,
                          changes |-> << >>, parentExpandChildren |-> << >>],
                         origin0, extent0))

(***************************************************************************)
(* Specification of measurement updates on adopted lookups: a root with a  *)
(* child, among them a child bound to its parent and a child whose parent  *)
(* is not in the array.                                                    *)
(***************************************************************************)
MaxUpdates == 2

OrphanB == [ref |-> 21, id |-> "b", parentId |-> "x", position |-> [x |-> 5, y |-> 5],
            width |-> 4, height |-> 4, extent |-> [kind |-> "parent"]]
OrphanFree == [ref |-> 22, id |-> "b", parentId |-> "x", position |-> [x |-> 5, y |-> 5],
               width |-> 4, height |-> 4]

OrphanArrays == {<<NA1, OrphanB>>, <<OrphanB, NA1>>, <<NA1, OrphanFree>>, <<NA1, NB2>>, <<NB2, NA1>>}

InitOrphan ==
    /\ \E ns \in OrphanArrays : StoreIs(setNodes(EmptyStore(<< >>, FALSE, {}), ns))
    /\ QueueIdle
    /\ PureIdle

\* updateNodeInternals(updates, nodeLookup, parentLookup, domNode, nodeOrigin,
\* nodeExtent) on the lookups of the store.
MeasureNodes ==
    /\ triggered < MaxUpdates
    /\ triggered' = triggered + 1
    /\ \E updates \in UpdateMaps, hasViewport \in BOOLEAN :
          LET returned(out) ==
                  /\ nodeLookup' = out.nodeLookup
                  /\ parentLookup' = out.parentLookup
                  /\ result' = IF out.thrown = "none"
                               THEN [thrown |-> "none", changes |-> out.changes,
                                     updatedInternals |-> out.updatedInternals]
                               ELSE [thrown |-> out.thrown]
                  /\ lastOp' = [op |-> "updateNodeInternals", updates |-> updates,
                                hasViewport |-> hasViewport, before |-> nodeLookup]
          IN  returned(updateNodeInternalsOrThrow(updates, nodeLookup, parentLookup,
                                                  hasViewport, nodeOrigin, nodeExtent))
    /\ UNCHANGED <<nodes, nodeExtent, nodeOrigin, elevateNodesOnSelect, storeParams,
                   hasDefaultNodes, edges, edgeLookup, connectionLookup, hasDefaultEdges,
                   handlers, notified, viewVars, gesture, queueVars, pc, elements, items,
                   changes, diffLookup>>

NextOrphan == MeasureNodes

SpecOrphan == InitOrphan /\ [][NextOrphan]_vars

\* The update gives a node of the lookup held before the call other dimensions.
Remeasured(update, before) ==
    /\ MapHas(before, update.id)
    /\ LET m == MapGet(before, update.id).measured
       IN  \/ ~Has(m, "width") \/ ~Has(m, "height")
           \/ m.width # update.dimensions.width \/ m.height # update.dimensions.height

\* C40: a measurement update never fails: for every lookup produced by adoption,
\* one that holds an orphaned child with extent 'parent' included,
\* updateNodeInternals raises no error, gives the updated nodes their dimensions
\* and returns their dimension changes.
C40_NeverFails ==
    (lastOp.op = "updateNodeInternals" /\ lastOp.hasViewport) =>
        /\ result.thrown = "none"
        /\ \A k \in DOMAIN lastOp.updates :
              Remeasured(lastOp.updates[k], lastOp.before) =>
                  /\ MapGet(nodeLookup, lastOp.updates[k].id).measured
                        = lastOp.updates[k].dimensions
                  /\ \E c \in DOMAIN result.changes :
                        result.changes[c] = [id |-> lastOp.updates[k].id, type |-> "dimensions",
                                             dimensions |-> lastOp.updates[k].dimensions]

====
